---- MODULE Spec2Model ----
(***************************************************************************)
(* A model of the notebooks of geospatial-primer.  Each notebook is a      *)
(* sequence of cells run in an interactive session; a cell binds names to  *)
(* the results of library calls.  The state is the session's bindings; an  *)
(* action is one cell.  Library calls are operators that compute what the  *)
(* call computes with the arguments the cell passes (defaults included).   *)
(* Every notebook has a specification of its own (SpecPandas, ...), since  *)
(* the notebooks share no state; its cells run once, from top to bottom.   *)
(* SpecKernel runs the cells that load files statement by statement, on a  *)
(* disk where any of the files may be missing.                             *)
(***************************************************************************)
EXTENDS Integers, Sequences, FiniteSets, TLC

VARIABLES
    csv_file,    \* 01-Pandas: the rows the CSV file holds
    df,          \* 01-Pandas: the frame bound to `df` (a sequence of rows)
    df_bound,    \* 01-Pandas: whether `df` is bound
    grouped,     \* 01-Pandas: the value of the last groupby cell
    pd_out,      \* 01-Pandas: the values of the other cells, by name
    pd_cell,     \* 01-Pandas: the cell that ran last
    zone,        \* 03-Shapely: a zone polygon (its ring of vertices)
    school,      \* 03-Shapely: a school point
    in_zone,     \* 03-Shapely: the value of school.within(zone), once computed
    points,      \* 03-Shapely: the list bound to `points`
    polygon,     \* 03-Shapely: the ring of the polygon bound to `polygon`
    valid,       \* 03-Shapely: the value of the last polygon.is_valid cell
    schools_in_zones, \* 03-Shapely: the six values of the school/zone cell
    affine,      \* 03-Shapely: the geometries of the affine cells, by name
    sh_cell,     \* 03-Shapely: the cell that ran last
    gp,          \* 04-GeoPandas: the frames bound in the session, by name
    gp_cell,     \* 04-GeoPandas: the cell that ran last
    raster_file, \* the raster file nairobi_elevation.tiff
    rs,          \* Rasterio: the names bound in the session
    rs_cell,     \* Rasterio: the cell that ran last
    xa,          \* 06-XArray: the names bound in the session
    xa_cell,     \* 06-XArray: the cell that ran last
    fs,          \* kernel: the paths that exist on disk
    kernel,      \* kernel: a session run statement by statement
    mp,          \* presenters: the names bound in the session
    mp_cell,     \* presenters: the statement that ran last
    cl,          \* columns: the columns of the frames bound in the session
    cl_cell,     \* columns: the cell that ran last
    tf,          \* Rasterio: the names bound by the transform cells
    tf_cell,     \* Rasterio: the transform cell that ran last
    cp,          \* Rasterio: the names bound by the cell that copies a raster
    cp_cell,     \* Rasterio: the statement of the copy cell that ran last
    pk,          \* 03-Shapely: the names bound by the proximity example
    pk_cell,     \* 03-Shapely: the cell of the proximity example that ran last
    du           \* Rasterio: the session of the cells that use a dataset, run statement by statement

vars_pd == <<csv_file, df, df_bound, grouped, pd_out, pd_cell>>
vars_sh == <<zone, school, in_zone, points, polygon, valid, schools_in_zones, affine, sh_cell>>

vars_gp == <<gp, gp_cell>>

vars_rs == <<rs, rs_cell>>
vars_xa == <<xa, xa_cell>>
vars_kn == <<fs, kernel>>
vars_mp == <<mp, mp_cell>>
vars_cl == <<cl, cl_cell>>
vars_du == <<du>>
vars_pk == <<pk, pk_cell>>
vars_tf == <<tf, tf_cell>>
vars_cp == <<cp, cp_cell>>

vars == <<vars_pd, vars_sh, vars_gp, raster_file, vars_rs, vars_xa, vars_kn, vars_mp, vars_cl, vars_tf, vars_cp, vars_pk, vars_du>>

\* What a cell of one notebook leaves alone: the other notebooks' sessions.
others_pd == <<vars_sh, vars_gp, raster_file, vars_rs, vars_xa, vars_kn, vars_mp, vars_cl, vars_tf, vars_cp, vars_pk, vars_du>>
others_sh == <<vars_pd, vars_gp, raster_file, vars_rs, vars_xa, vars_kn, vars_mp, vars_cl, vars_tf, vars_cp, vars_pk, vars_du>>
others_gp == <<vars_pd, vars_sh, raster_file, vars_rs, vars_xa, vars_kn, vars_mp, vars_cl, vars_tf, vars_cp, vars_pk, vars_du>>
others_rs == <<vars_pd, vars_sh, vars_gp, vars_kn, vars_mp, vars_cl, vars_tf, vars_cp, vars_pk, vars_du>>
others_kn == <<vars_pd, vars_sh, vars_gp, raster_file, vars_rs, vars_xa, vars_mp, vars_cl, vars_tf, vars_cp, vars_pk, vars_du>>
others_mp == <<vars_pd, vars_sh, vars_gp, raster_file, vars_rs, vars_xa, vars_kn, vars_cl, vars_tf, vars_cp, vars_pk, vars_du>>
others_cl == <<vars_pd, vars_sh, vars_gp, raster_file, vars_rs, vars_xa, vars_kn, vars_mp, vars_tf, vars_cp, vars_pk, vars_du>>
others_tf == <<vars_pd, vars_sh, vars_gp, raster_file, vars_rs, vars_xa, vars_kn, vars_mp, vars_cl, vars_cp, vars_pk, vars_du>>
others_cp == <<vars_pd, vars_sh, vars_gp, raster_file, vars_rs, vars_xa, vars_kn, vars_mp, vars_cl, vars_tf, vars_pk, vars_du>>
others_pk == <<vars_pd, vars_sh, vars_gp, raster_file, vars_rs, vars_xa, vars_kn, vars_mp, vars_cl, vars_tf, vars_cp, vars_du>>
others_du == <<vars_pd, vars_sh, vars_gp, raster_file, vars_rs, vars_xa, vars_kn, vars_mp, vars_cl, vars_tf, vars_cp, vars_pk>>

(***************************************************************************)
(* Bounds of the model.                                                    *)
(***************************************************************************)
MaxRows == 3
MaxData == 1
GridMax == 3
GeoMax == 2
MaxDistricts == 2
MaxPoints == 1
MaxDim == 3
MaxBox == 8
MaxFactor == 3
MaxMapRows == 2
MaxCols == 3
MaxOrigin == 1
MaxBands == 2
MaxOffset == 2

(***************************************************************************)
(* 01-Pandas: frames, groupby.                                             *)
(***************************************************************************)

\* A missing key (NaN in the key column).
NaNKey == "NaN"

\* The key values of the dummy frame.
Keys == {"A", "B", "C"}

\* The order of the keys under Python's string comparison.
KeyOrd(k) == CASE k = "A" -> 1 [] k = "B" -> 2 [] k = "C" -> 3 [] OTHER -> 4

\* A row: a key (or NaN), a data value, and whether the data value is missing.
Rows == [key : Keys \cup {NaNKey}, data : 0..MaxData, na : {FALSE}]
            \cup [key : Keys \cup {NaNKey}, data : {0}, na : {TRUE}]

RECURSIVE SeqsUpTo(_, _)
SeqsUpTo(S, n) ==
    IF n = 0 THEN {<<>>}
    ELSE LET shorter == SeqsUpTo(S, n - 1)
         IN  shorter \cup {Append(s, x) : s \in {t \in shorter : Len(t) = n - 1}, x \in S}

\* The frames a CSV file may hold.
Frames == SeqsUpTo(Rows, MaxRows)

\* pd.DataFrame({"key": [...], "data": [...]}) of the dummy-frame cell.
DummyFrame ==
    LET k == <<"A", "B", "C", "A", "B", "C", "A", "B", "C">>
        d == <<0, 5, 10, 5, 10, 15, 10, 15, 20>>
    IN  [i \in 1..9 |-> [key |-> k[i], data |-> d[i], na |-> FALSE]]

\* The distinct non-missing keys of a frame in order of first appearance
\* (groupby factorizes the key column; dropna=True is the default).
RECURSIVE Uniques(_, _)
Uniques(f, seen) ==
    IF f = <<>> THEN <<>>
    ELSE IF Head(f).key = NaNKey \/ Head(f).key \in seen
         THEN Uniques(Tail(f), seen)
         ELSE <<Head(f).key>> \o Uniques(Tail(f), seen \cup {Head(f).key})

\* Insert k into the sorted sequence s.
RECURSIVE Insert(_, _)
Insert(k, s) ==
    IF s = <<>> THEN <<k>>
    ELSE IF KeyOrd(k) <= KeyOrd(Head(s)) THEN <<k>> \o s
         ELSE <<Head(s)>> \o Insert(k, Tail(s))

RECURSIVE SortKeys(_)
SortKeys(s) == IF s = <<>> THEN <<>> ELSE Insert(Head(s), SortKeys(Tail(s)))

\* The group keys as they are left unsorted (groupby(..., sort=False)).
GroupKeysFirstSeen(f) == Uniques(f, {})

\* The group keys of df.groupby(col): sort=True is the default.
GroupKeys(f) == SortKeys(Uniques(f, {}))

\* The rows of one group.
GroupRows(f, k) == SelectSeq(f, LAMBDA r : r.key = k)

RECURSIVE SumData(_)
SumData(f) ==
    IF f = <<>> THEN 0
    ELSE (IF Head(f).na THEN 0 ELSE Head(f).data) + SumData(Tail(f))

\* The number of values that are not missing.
Count(f) == Len(SelectSeq(f, LAMBDA r : ~r.na))

\* Series.mean(): skipna=True, the sum of the present values over their count;
\* den = 0 stands for NaN (no present value).
Mean(f) == [num |-> SumData(f), den |-> Count(f)]

\* Series.sum(): skipna=True; an integer as den = 1.
Sum(f) == [num |-> SumData(f), den |-> 1]

\* df.groupby(col)[c].mean()
GroupByMean(f) ==
    LET gk == GroupKeys(f)
    IN  [i \in 1..Len(gk) |-> [key |-> gk[i], value |-> Mean(GroupRows(f, gk[i]))]]

\* A sum that counts the values instead of adding them up
\* (df.groupby(col).count()).
GroupByCount(f) ==
    LET gk == GroupKeys(f)
    IN  [i \in 1..Len(gk) |-> [key |-> gk[i],
                               value |-> [num |-> Count(GroupRows(f, gk[i])), den |-> 1]]]

\* df.groupby(col).sum()
GroupBySum(f) ==
    LET gk == GroupKeys(f)
    IN  [i \in 1..Len(gk) |-> [key |-> gk[i], value |-> Sum(GroupRows(f, gk[i]))]]

\* grp.sum() / len(grp) of the lambda: the sum of the present values over the
\* number of rows, missing ones included; den = 0 is the division 0 / 0.
SumOverLen(f) == [num |-> SumData(f), den |-> Len(f)]

\* df.groupby(col)[c].aggregate(lambda grp: grp.sum() / len(grp))
GroupByAggregateLambda(f) ==
    LET gk == GroupKeys(f)
    IN  [i \in 1..Len(gk) |-> [key |-> gk[i], value |-> SumOverLen(GroupRows(f, gk[i]))]]

\* df.groupby(col).aggregate(np.sum): np.sum of a group is the group's sum().
GroupByAggregateSum(f) ==
    LET gk == GroupKeys(f)
    IN  [i \in 1..Len(gk) |-> [key |-> gk[i], value |-> Sum(GroupRows(f, gk[i]))]]

\* The threshold of the filter cell.
FareThreshold == 50

\* The fare a data value stands for: 0 is below the threshold, every other
\* value above it.
FareOf(d) == d * (FareThreshold + 1)

\* df["Fare"] > 50: a comparison with a missing value is False.
FareMask(f) == [i \in 1..Len(f) |-> ~f[i].na /\ FareOf(f[i].data) > FareThreshold]

\* df["key"] == k
KeyMask(f, k) == [i \in 1..Len(f) |-> f[i].key = k]

\* df[mask]: a new frame of the rows whose mask value is True, in order.
RECURSIVE Take(_, _, _)
Take(f, mask, i) ==
    IF i > Len(f) THEN <<>>
    ELSE (IF mask[i] THEN <<f[i]>> ELSE <<>>) \o Take(f, mask, i + 1)

BooleanIndex(f, mask) == Take(f, mask, 1)

\* The list("ABC") of the loop cell.
LoopKeys == <<"A", "B", "C">>

\* for k in list("ABC"): print(k, df[df["key"] == k]["data"].sum())
KeySums(f) ==
    [i \in 1..Len(LoopKeys) |->
        [key |-> LoopKeys[i], value |-> Sum(BooleanIndex(f, KeyMask(f, LoopKeys[i])))]]

\* A value no cell has computed yet.
NoValue == [num |-> 0, den |-> 0]

\* The values of the session's cells before any of them ran.
NoOut == [rate |-> <<>>, mask |-> <<>>, filtered |-> <<>>, data_sum |-> NoValue,
          key_sums |-> <<>>, aggregated |-> <<>>]

\* The session of 01-Pandas before its first cell, the CSV file holding f.
StartPandas(f) ==
    /\ csv_file = f
    /\ df = <<>>
    /\ df_bound = FALSE
    /\ grouped = <<>>
    /\ pd_out = NoOut
    /\ pd_cell = "start"

\* A session in which `df` is bound to a frame f with the columns key and data.
StartSums(f) ==
    /\ csv_file = <<>>
    /\ df = f
    /\ df_bound = TRUE
    /\ grouped = <<>>
    /\ pd_out = NoOut
    /\ pd_cell = "dummy"

\* df = pd.read_csv(file_path)
ReadCsvCell ==
    /\ pd_cell = "start"
    /\ df' = csv_file
    /\ df_bound' = TRUE
    /\ pd_cell' = "read_csv"
    /\ UNCHANGED <<csv_file, grouped, pd_out, others_pd>>

\* df.groupby("Sex")["Survived"].mean()
GroupByMeanCell ==
    /\ pd_cell = "read_csv"
    /\ df_bound
    /\ grouped' = GroupByMean(df)
    /\ pd_cell' = "mean"
    /\ UNCHANGED <<csv_file, df, df_bound, pd_out, others_pd>>

\* df.groupby("Sex")["Survived"].aggregate(lambda grp: grp.sum() / len(grp))
AggregateLambdaCell ==
    /\ pd_cell = "mean"
    /\ df_bound
    /\ pd_out' = [pd_out EXCEPT !.rate = GroupByAggregateLambda(df)]
    /\ pd_cell' = "rate"
    /\ UNCHANGED <<csv_file, df, df_bound, grouped, others_pd>>

\* mask = df["Fare"] > 50; df[mask]
FilterCell ==
    /\ pd_cell = "rate"
    /\ df_bound
    /\ pd_out' = [pd_out EXCEPT !.mask = FareMask(df),
                                !.filtered = BooleanIndex(df, FareMask(df))]
    /\ pd_cell' = "filter"
    /\ UNCHANGED <<csv_file, df, df_bound, grouped, others_pd>>

\* df = pd.DataFrame({"key": ..., "data": ...})
DummyFrameCell ==
    /\ pd_cell = "filter"
    /\ df' = DummyFrame
    /\ df_bound' = TRUE
    /\ pd_cell' = "dummy"
    /\ UNCHANGED <<csv_file, grouped, pd_out, others_pd>>

\* df["data"].sum()
DataSumCell ==
    /\ pd_cell = "dummy"
    /\ df_bound
    /\ pd_out' = [pd_out EXCEPT !.data_sum = Sum(df)]
    /\ pd_cell' = "data_sum"
    /\ UNCHANGED <<csv_file, df, df_bound, grouped, others_pd>>

\* for k in list("ABC"): print(k, df[df["key"] == k]["data"].sum())
KeySumsCell ==
    /\ pd_cell = "data_sum"
    /\ df_bound
    /\ pd_out' = [pd_out EXCEPT !.key_sums = KeySums(df)]
    /\ pd_cell' = "key_sums"
    /\ UNCHANGED <<csv_file, df, df_bound, grouped, others_pd>>

\* df.groupby("key").sum()
GroupBySumCell ==
    /\ pd_cell = "key_sums"
    /\ df_bound
    /\ grouped' = GroupBySum(df)
    /\ pd_cell' = "sum"
    /\ UNCHANGED <<csv_file, df, df_bound, pd_out, others_pd>>

\* df.groupby("key").aggregate(np.sum)
AggregateSumCell ==
    /\ pd_cell = "sum"
    /\ df_bound
    /\ pd_out' = [pd_out EXCEPT !.aggregated = GroupByAggregateSum(df)]
    /\ pd_cell' = "aggregate"
    /\ UNCHANGED <<csv_file, df, df_bound, grouped, others_pd>>

\* No session of 01-Pandas.
OffPandas ==
    /\ csv_file = <<>>
    /\ df = <<>>
    /\ df_bound = FALSE
    /\ grouped = <<>>
    /\ pd_out = NoOut
    /\ pd_cell = "off"

CellPandas ==
    \/ ReadCsvCell
    \/ GroupByMeanCell
    \/ AggregateLambdaCell
    \/ FilterCell
    \/ DummyFrameCell
    \/ DataSumCell
    \/ KeySumsCell
    \/ GroupBySumCell
    \/ AggregateSumCell

\* The cells that sum the frame bound to `df`.
CellSums ==
    \/ DataSumCell
    \/ KeySumsCell
    \/ GroupBySumCell
    \/ AggregateSumCell
(***************************************************************************)
(* 03-Shapely: points, polygons, is_valid, within.  A point is <<x, y>>;   *)
(* a polygon is its exterior ring, the closed sequence of vertices given   *)
(* to Polygon(...).                                                        *)
(***************************************************************************)

Grid == 0..GridMax

\* The sign of the cross product (b - a) x (c - a): the side of a->b on which c lies.
Orient(a, b, c) ==
    LET v == (b[1] - a[1]) * (c[2] - a[2]) - (b[2] - a[2]) * (c[1] - a[1])
    IN  IF v > 0 THEN 1 ELSE IF v < 0 THEN -1 ELSE 0

Min(a, b) == IF a <= b THEN a ELSE b
Max(a, b) == IF a >= b THEN a ELSE b

\* Whether p lies on the closed segment a-b.
OnSegment(p, a, b) ==
    /\ Orient(a, b, p) = 0
    /\ Min(a[1], b[1]) <= p[1] /\ p[1] <= Max(a[1], b[1])
    /\ Min(a[2], b[2]) <= p[2] /\ p[2] <= Max(a[2], b[2])

\* Whether the closed segments a-b and c-d share a point.
SegmentsIntersect(a, b, c, d) ==
    \/ /\ Orient(a, b, c) * Orient(a, b, d) < 0
       /\ Orient(c, d, a) * Orient(c, d, b) < 0
    \/ OnSegment(c, a, b)
    \/ OnSegment(d, a, b)
    \/ OnSegment(a, c, d)
    \/ OnSegment(b, c, d)

\* The number of edges of a ring.
NumEdges(ring) == Len(ring) - 1

\* Whether p lies on the boundary of the polygon.
OnBoundary(p, ring) ==
    \E i \in 1..NumEdges(ring) : OnSegment(p, ring[i], ring[i + 1])

\* Whether the ray from p towards +x crosses the edge a-b (the edge is half
\* open in y, so that a vertex on the ray is counted once).
RayCrosses(p, a, b) ==
    /\ (a[2] > p[2]) # (b[2] > p[2])
    /\ IF b[2] > a[2]
       THEN (p[1] - a[1]) * (b[2] - a[2]) < (p[2] - a[2]) * (b[1] - a[1])
       ELSE (p[1] - a[1]) * (b[2] - a[2]) > (p[2] - a[2]) * (b[1] - a[1])

\* The number of edges the ray from p crosses.
Crossings(p, ring) ==
    Cardinality({i \in 1..NumEdges(ring) : RayCrosses(p, ring[i], ring[i + 1])})

\* A within that takes any crossing of the ray for being inside.
WithinAnyCrossing(p, ring) ==
    /\ ~OnBoundary(p, ring)
    /\ Crossings(p, ring) > 0

\* point.within(polygon): the point lies in the interior of the polygon (a
\* point on the boundary is not within it).
Within(p, ring) ==
    /\ ~OnBoundary(p, ring)
    /\ Crossings(p, ring) % 2 = 1

\* Whether edges i and j of a ring are neighbours (they share a vertex).
Adjacent(ring, i, j) ==
    \/ j = i + 1
    \/ (i = 1 /\ j = NumEdges(ring))

\* A ring that is only checked to be closed.
IsClosedRing(ring) ==
    /\ Len(ring) >= 4
    /\ ring[1] = ring[Len(ring)]

\* polygon.is_valid: the ring is closed and simple: edges that are not
\* neighbours share no point, and neighbours share their common vertex only.
IsValid(ring) ==
    /\ Len(ring) >= 4
    /\ ring[1] = ring[Len(ring)]
    /\ \A i, j \in 1..NumEdges(ring) :
          i < j =>
             IF Adjacent(ring, i, j)
             THEN LET a == IF j = i + 1 THEN ring[i] ELSE ring[i + 1]
                      m == IF j = i + 1 THEN ring[i + 1] ELSE ring[1]
                      c == IF j = i + 1 THEN ring[j + 1] ELSE ring[j]
                  IN  /\ a # m /\ c # m
                      /\ ~OnSegment(a, m, c)
                      /\ ~OnSegment(c, m, a)
             ELSE ~SegmentsIntersect(ring[i], ring[i + 1], ring[j], ring[j + 1])

\* Polygon([(x0, y0), (x0, y1), (x1, y1), (x1, y0), (x0, y0)]): the vertex
\* order of the notebook's rectangles.
RectRing(x0, y0, x1, y1) ==
    <<<<x0, y0>>, <<x0, y1>>, <<x1, y1>>, <<x1, y0>>, <<x0, y0>>>>

\* The rectangles on the grid.
RectRings ==
    {RectRing(c[1], c[2], c[3], c[4]) :
        c \in {d \in Grid \X Grid \X Grid \X Grid : d[1] < d[3] /\ d[2] < d[4]}}

\* The closed vertex lists that start at the first corner of a rectangle and
\* visit its four corners once each.
CornerOrders(r) ==
    {<<r[1], r[o[1]], r[o[2]], r[o[3]], r[1]>> :
        o \in {q \in (2..4) \X (2..4) \X (2..4) :
                  q[1] # q[2] /\ q[1] # q[3] /\ q[2] # q[3]}}

\* points = [(0,0), (2,2), (0,2), (2,0), (0,0)]
SelfIntersectingPoints == <<<<0, 0>>, <<2, 2>>, <<0, 2>>, <<2, 0>>, <<0, 0>>>>

\* points = [(0,0), (0,2), (2,2), (2,0), (0,0)]
FixedPoints == <<<<0, 0>>, <<0, 2>>, <<2, 2>>, <<2, 0>>, <<0, 0>>>>

\* The schools and zones of the point-in-polygon example.
school1 == <<1, 1>>
school2 == <<3, 3>>
school3 == <<5, 5>>
zone1 == RectRing(0, 0, 4, 4)
zone2 == <<<<4, 0>>, <<4, 4>>, <<8, 4>>, <<8, 0>>, <<4, 0>>>>

\* The coordinates of a geometry of the affine cells: a point has one pair,
\* a line one pair per vertex.
PointCoords == <<<<1, 1>>>>
LineCoords == <<<<0, 0>>, <<1, 1>>, <<2, 2>>>>

SeqMin(coords, k) == CHOOSE v \in {coords[i][k] : i \in 1..Len(coords)} :
                        \A i \in 1..Len(coords) : v <= coords[i][k]
SeqMax(coords, k) == CHOOSE v \in {coords[i][k] : i \in 1..Len(coords)} :
                        \A i \in 1..Len(coords) : v >= coords[i][k]

\* Twice the lower left corner of the bounding box of a geometry.
BBoxCorner2(coords) == <<2 * SeqMin(coords, 1), 2 * SeqMin(coords, 2)>>

\* Twice the centre of the bounding box of a geometry: the origin of
\* affinity.scale when none is given (origin='center').
BBoxCentre2(coords) ==
    <<SeqMin(coords, 1) + SeqMax(coords, 1), SeqMin(coords, 2) + SeqMax(coords, 2)>>

\* affinity.scale(geom, xfact, yfact): every vertex moves away from the
\* centre of the geometry's own bounding box by the factors.  The result is
\* in halves: twice the coordinates.
Scale(coords, xfact, yfact) ==
    LET c == BBoxCentre2(coords)
    IN  [i \in 1..Len(coords) |->
            <<c[1] + xfact * (2 * coords[i][1] - c[1]),
              c[2] + yfact * (2 * coords[i][2] - c[2])>>]

\* affinity.rotate(geom, angle=45, origin=(0, 0)): x cos - y sin, x sin + y cos
\* with cos = sin = sqrt(2)/2.  The result is in units of sqrt(2)/2.
Rotate45(coords) ==
    [i \in 1..Len(coords) |-> <<coords[i][1] - coords[i][2], coords[i][1] + coords[i][2]>>]

\* affinity.translate(geom, xoff, yoff)
Translate(coords, xoff, yoff) ==
    [i \in 1..Len(coords) |-> <<coords[i][1] + xoff, coords[i][2] + yoff>>]

\* The names of the affine cells, none bound yet.
NoAffine ==
    [point |-> <<>>, linestring |-> <<>>,
     scaled_point |-> <<>>, scaled_linestring |-> <<>>,
     rotated_point |-> <<>>, rotated_linestring |-> <<>>,
     translated_point |-> <<>>, translated_linestring |-> <<>>]

\* The session of 03-Shapely before its first cell, with a zone z and a
\* school s to test.
StartShapely(z, s) ==
    /\ zone = z
    /\ school = s
    /\ in_zone = "unset"
    /\ points = <<>>
    /\ polygon = <<>>
    /\ valid = "unset"
    /\ schools_in_zones = <<>>
    /\ affine = NoAffine
    /\ sh_cell = "start"

\* No session of 03-Shapely.
OffShapely ==
    /\ zone = <<>>
    /\ school = <<>>
    /\ in_zone = "unset"
    /\ points = <<>>
    /\ polygon = <<>>
    /\ valid = "unset"
    /\ schools_in_zones = <<>>
    /\ affine = NoAffine
    /\ sh_cell = "off"

\* points = [...]; polygon = Polygon(points), with the notebook's
\* self-intersecting order or any other order of a rectangle's corners.
PolygonCell ==
    /\ sh_cell = "start"
    /\ \E pts \in {SelfIntersectingPoints} \cup CornerOrders(zone) :
          /\ points' = pts
          /\ polygon' = pts
    /\ sh_cell' = "polygon"
    /\ UNCHANGED <<zone, school, in_zone, valid, schools_in_zones, affine, others_sh>>

\* polygon.is_valid
IsValidCell ==
    /\ sh_cell \in {"polygon", "fix_ordering"}
    /\ valid' = IsValid(polygon)
    /\ sh_cell' = IF sh_cell = "polygon" THEN "is_valid" ELSE "is_valid_fixed"
    /\ UNCHANGED <<zone, school, in_zone, points, polygon, schools_in_zones, affine, others_sh>>

\* Fix the ordering: points = the corners in ring order; polygon = Polygon(points)
FixOrderingCell ==
    /\ sh_cell = "is_valid"
    /\ \E pts \in {FixedPoints, zone} :
          /\ points' = pts
          /\ polygon' = pts
    /\ sh_cell' = "fix_ordering"
    /\ UNCHANGED <<zone, school, in_zone, valid, schools_in_zones, affine, others_sh>>

\* point = Point(1, 1); linestring = LineString([(0, 0), (1, 1), (2, 2)])
AffineGeometriesCell ==
    /\ sh_cell = "is_valid_fixed"
    /\ affine' = [affine EXCEPT !.point = PointCoords, !.linestring = LineCoords]
    /\ sh_cell' = "affine_geometries"
    /\ UNCHANGED <<zone, school, in_zone, points, polygon, valid, schools_in_zones, others_sh>>

\* scaled_point = affinity.scale(point, xfact=2, yfact=2)
\* scaled_linestring = affinity.scale(linestring, xfact=2, yfact=2)
ScaleCell ==
    /\ sh_cell = "affine_geometries"
    /\ affine' = [affine EXCEPT !.scaled_point = Scale(affine.point, 2, 2),
                                !.scaled_linestring = Scale(affine.linestring, 2, 2)]
    /\ sh_cell' = "scale"
    /\ UNCHANGED <<zone, school, in_zone, points, polygon, valid, schools_in_zones, others_sh>>

\* rotated_point = affinity.rotate(point, angle=45, origin=(0, 0))
\* rotated_linestring = affinity.rotate(linestring, angle=45, origin=(0, 0))
RotateCell ==
    /\ sh_cell = "scale"
    /\ affine' = [affine EXCEPT !.rotated_point = Rotate45(affine.point),
                                !.rotated_linestring = Rotate45(affine.linestring)]
    /\ sh_cell' = "rotate"
    /\ UNCHANGED <<zone, school, in_zone, points, polygon, valid, schools_in_zones, others_sh>>

\* translated_point = affinity.translate(point, xoff=1, yoff=1)
\* translated_linestring = affinity.translate(linestring, xoff=1, yoff=1)
TranslateCell ==
    /\ sh_cell = "rotate"
    /\ affine' = [affine EXCEPT !.translated_point = Translate(affine.point, 1, 1),
                                !.translated_linestring = Translate(affine.linestring, 1, 1)]
    /\ sh_cell' = "translate"
    /\ UNCHANGED <<zone, school, in_zone, points, polygon, valid, schools_in_zones, others_sh>>

\* school.within(zone) for one school and one zone
WithinCell ==
    /\ sh_cell = "translate"
    /\ in_zone' = Within(school, zone)
    /\ sh_cell' = "within"
    /\ UNCHANGED <<zone, school, points, polygon, valid, schools_in_zones, affine, others_sh>>

\* school1_in_zone1 = school1.within(zone1) ... school3_in_zone2
SchoolsInZonesCell ==
    /\ sh_cell = "within"
    /\ schools_in_zones' =
          <<Within(school1, zone1), Within(school1, zone2),
            Within(school2, zone1), Within(school2, zone2),
            Within(school3, zone1), Within(school3, zone2)>>
    /\ sh_cell' = "schools_in_zones"
    /\ UNCHANGED <<zone, school, in_zone, points, polygon, valid, affine, others_sh>>

CellShapely ==
    \/ PolygonCell
    \/ IsValidCell
    \/ FixOrderingCell
    \/ AffineGeometriesCell
    \/ ScaleCell
    \/ RotateCell
    \/ TranslateCell
    \/ WithinCell
    \/ SchoolsInZonesCell

(***************************************************************************)
(* 04-GeoPandas: geometric frames, to_crs, sjoin.  A geometric frame is    *)
(* [index, geoms, crs]: the index labels of its rows, their geometries     *)
(* and the CRS the frame declares.                                         *)
(***************************************************************************)

\* The CRSs the notebooks name, by EPSG code: WGS 84, Web Mercator, UTM zone 31N.
CRSs == {4326, 3857, 32631}

\* Where a CRS puts the origin of the model's ground grid.  A coordinate
\* transformation is modelled as exact and as a translation: it moves every
\* vertex alike and keeps the shape, and the coordinates of one place differ
\* from CRS to CRS.
Origin(crs) ==
    CASE crs = 4326 -> <<0, 0>>
      [] crs = 3857 -> <<10, 20>>
      [] crs = 32631 -> <<40, 50>>
      [] OTHER -> <<70, 80>>

\* The coordinates in CRS `to` of the place that has coordinates p in CRS `from`.
TransformPoint(from, to, p) ==
    <<p[1] - Origin(from)[1] + Origin(to)[1], p[2] - Origin(from)[2] + Origin(to)[2]>>

\* A geometry is a point <<x, y>> or a ring of points.
IsPoint(g) == Len(g) = 2 /\ g[1] \in Int

TransformGeom(from, to, g) ==
    IF IsPoint(g) THEN TransformPoint(from, to, g)
    ELSE [i \in 1..Len(g) |-> TransformPoint(from, to, g[i])]

\* A to_crs that moves the coordinates and leaves the declared CRS as it was.
ToCrsKeepsDeclared(frame, crs) ==
    [frame EXCEPT !.geoms = [i \in 1..Len(frame.geoms) |->
                                TransformGeom(frame.crs, crs, frame.geoms[i])]]

\* frame.to_crs(crs): a new frame, its geometries re-expressed in crs and
\* declaring crs.
ToCrs(frame, crs) ==
    [index |-> frame.index,
     geoms |-> [i \in 1..Len(frame.geoms) |->
                   TransformGeom(frame.crs, crs, frame.geoms[i])],
     crs |-> crs]

\* gpd.GeoDataFrame(geometry=[...], crs=crs): the rows are labelled 0, 1, ...
GeoDataFrame(geoms, crs) ==
    [index |-> [i \in 1..Len(geoms) |-> i - 1], geoms |-> geoms, crs |-> crs]

\* frame.iloc[1:]: the rows but the first, with their labels.
ILocFrom1(frame) ==
    [frame EXCEPT !.index = IF frame.index = <<>> THEN <<>> ELSE Tail(frame.index),
                  !.geoms = IF frame.geoms = <<>> THEN <<>> ELSE Tail(frame.geoms)]

\* Whether two polygons share a point.
Intersects(a, b) ==
    \/ \E i \in 1..NumEdges(a), j \in 1..NumEdges(b) :
          SegmentsIntersect(a[i], a[i + 1], b[j], b[j + 1])
    \/ \E i \in 1..Len(a) : Within(a[i], b)
    \/ \E j \in 1..Len(b) : Within(b[j], a)

\* How often the ring winds around p: an edge that goes up past p on its
\* right counts 1, an edge that goes down past p on its left counts -1.
RECURSIVE Winding(_, _, _)
Winding(p, ring, i) ==
    IF i > NumEdges(ring) THEN 0
    ELSE LET a == ring[i]
             b == ring[i + 1]
             side == (b[1] - a[1]) * (p[2] - a[2]) - (p[1] - a[1]) * (b[2] - a[2])
         IN  (IF a[2] <= p[2] /\ b[2] > p[2] /\ side > 0 THEN 1
              ELSE IF a[2] > p[2] /\ b[2] <= p[2] /\ side < 0 THEN -1
              ELSE 0)
             + Winding(p, ring, i + 1)

\* A contains that counts a point of the boundary as contained (covers).
ContainsOrTouches(ring, p) ==
    OnBoundary(p, ring) \/ Winding(p, ring, 1) # 0

\* polygon.contains(point): the point is no point of the polygon's boundary
\* or exterior, that is, the ring winds around it.
Contains(ring, p) ==
    ~OnBoundary(p, ring) /\ Winding(p, ring, 1) # 0

\* frame[mask]: the rows of the frame whose mask value is True, with their
\* labels.
RECURSIVE MaskedFrom(_, _, _)
MaskedFrom(frame, mask, i) ==
    IF i > Len(frame.geoms) THEN <<>>
    ELSE (IF mask[i] THEN <<i>> ELSE <<>>) \o MaskedFrom(frame, mask, i + 1)

Masked(frame, mask) ==
    LET kept == MaskedFrom(frame, mask, 1)
    IN  [index |-> [n \in 1..Len(kept) |-> frame.index[kept[n]]],
         geoms |-> [n \in 1..Len(kept) |-> frame.geoms[kept[n]]],
         crs |-> frame.crs]

\* frame.contains(geom): row by row.
FrameContains(frame, geom) ==
    [i \in 1..Len(frame.geoms) |-> Contains(frame.geoms[i], geom)]

\* The binary predicate of sjoin(..., predicate=name).
Predicate(name, l, r) ==
    CASE name = "within" -> Within(l, r)
      [] name = "intersects" -> Intersects(l, r)
      [] OTHER -> FALSE

\* The rows a left row i yields against the right rows j, j + 1, ...
RECURSIVE MatchesOf(_, _, _, _, _)
MatchesOf(left, right, name, i, j) ==
    IF j > Len(right.geoms) THEN <<>>
    ELSE (IF Predicate(name, left.geoms[i], right.geoms[j])
          THEN <<[index |-> left.index[i], index_right |-> right.index[j],
                  geometry |-> left.geoms[i]]>>
          ELSE <<>>)
         \o MatchesOf(left, right, name, i, j + 1)

RECURSIVE JoinFrom(_, _, _, _)
JoinFrom(left, right, name, i) ==
    IF i > Len(left.geoms) THEN <<>>
    ELSE MatchesOf(left, right, name, i, 1) \o JoinFrom(left, right, name, i + 1)

\* A join that keeps every left row: a row without a match comes with no
\* right label (how="left").
RECURSIVE LeftJoinFrom(_, _, _, _)
LeftJoinFrom(left, right, name, i) ==
    IF i > Len(left.geoms) THEN <<>>
    ELSE (IF MatchesOf(left, right, name, i, 1) = <<>>
          THEN <<[index |-> left.index[i], index_right |-> -1,
                  geometry |-> left.geoms[i]]>>
          ELSE MatchesOf(left, right, name, i, 1))
         \o LeftJoinFrom(left, right, name, i + 1)

SJoinLeft(left, right, name) ==
    [rows |-> LeftJoinFrom(left, right, name, 1), crs |-> left.crs]

\* gpd.sjoin(left, right, predicate=name): how="inner" is the default; the
\* rows are the matching pairs, with the left row's label and geometry and
\* the right row's label as index_right.
SJoin(left, right, name) ==
    [rows |-> JoinFrom(left, right, name, 1), crs |-> left.crs]

\* The unit squares of the grid a rectangle with the corners ring[1] and
\* ring[3] covers, each by its lower left corner.
Squares(ring) ==
    {<<x, y>> : x \in ring[1][1]..(ring[3][1] - 1), y \in ring[1][2]..(ring[3][2] - 1)}

\* The squares the geometries of the rows from i on cover.
RECURSIVE Covered(_, _)
Covered(geoms, i) ==
    IF i > Len(geoms) THEN {} ELSE Squares(geoms[i]) \cup Covered(geoms, i + 1)

RowGeoms(rows) == [i \in 1..Len(rows) |-> rows[i].geometry]

\* The pieces of one row of df1 with the rows j, j + 1, ... of df2.
RECURSIVE PiecesOf(_, _, _, _)
PiecesOf(g1, g2, i, j) ==
    IF j > Len(g2) THEN <<>>
    ELSE (IF Squares(g1[i]) \cap Squares(g2[j]) # {}
          THEN <<[row_1 |-> i, row_2 |-> j, squares |-> Squares(g1[i]) \cap Squares(g2[j])]>>
          ELSE <<>>)
         \o PiecesOf(g1, g2, i, j + 1)

RECURSIVE Intersections(_, _, _)
Intersections(g1, g2, i) ==
    IF i > Len(g1) THEN <<>>
    ELSE PiecesOf(g1, g2, i, 1) \o Intersections(g1, g2, i + 1)

\* The part of each row of g from i on that no geometry of other covers; the
\* rows are those of df1 (side = 1) or of df2 (side = 2).
RECURSIVE Differences(_, _, _, _)
Differences(g, other, side, i) ==
    IF i > Len(g) THEN <<>>
    ELSE (IF Squares(g[i]) \ Covered(other, 1) # {}
          THEN <<[row_1 |-> IF side = 1 THEN i ELSE 0,
                  row_2 |-> IF side = 2 THEN i ELSE 0,
                  squares |-> Squares(g[i]) \ Covered(other, 1)]>>
          ELSE <<>>)
         \o Differences(g, other, side, i + 1)

\* gpd.overlay(df1, df2, how='union'): the intersections of the rows of the
\* two frames, then what is left of the rows of df1, then what is left of
\* those of df2; the result declares the CRS of df1.
OverlayUnion(df1, df2) ==
    [pieces |-> Intersections(RowGeoms(df1.rows), df2.geoms, 1)
                   \o Differences(RowGeoms(df1.rows), df2.geoms, 1, 1)
                   \o Differences(df2.geoms, RowGeoms(df1.rows), 2, 1),
     crs |-> df1.crs]

\* A cross-frame call as the session made it: the function and the CRSs the
\* two frames declared when it was called.
Call(op, left, right) == [op |-> op, left_crs |-> left.crs, right_crs |-> right.crs]

GeoGrid == 0..GeoMax

\* The districts a file may hold: rectangles across the grid, one beside or
\* over another, with coordinates in the file's CRS.
Districts(crs) ==
    {TransformGeom(4326, crs, RectRing(x[1], 0, x[2], GeoMax)) :
        x \in {y \in GeoGrid \X GeoGrid : y[1] < y[2]}}

\* The sample points, in EPSG:4326.
SamplePoints == {<<x, 1>> : x \in GeoGrid}

\* geometry.buffer(d) of a rectangle, as its envelope: the rectangle grown
\* by d on every side; 500 m is one unit of the grid.  (The districts of the model span the same y range,
\* where the buffer and its envelope meet the same districts.)
BufferEnvelope(ring, d) ==
    RectRing(ring[1][1] - d, ring[1][2] - d, ring[3][1] + d, ring[3][2] + d)

NoFrame == [index |-> <<>>, geoms |-> <<>>, crs |-> 0]
NoJoin == [rows |-> <<>>, crs |-> 0]
NoOverlay == [pieces |-> <<>>, crs |-> 0]

\* The session of 04-GeoPandas before its first cell.
StartGeoPandas ==
    /\ gp = [gdf_paris_districts |-> NoFrame,
             gdf_countries |-> NoFrame,
             gdf_buffer |-> NoFrame,
             intersecting_districts |-> NoJoin,
             union |-> NoOverlay,
             gdf_points |-> NoFrame,
             point_in_polygon |-> NoJoin,
             district |-> NoFrame,
             gdf_paris_districts_mercator |-> NoFrame,
             gdf_countries_transformed |-> NoFrame,
             calls |-> <<>>]
    /\ gp_cell = "start"

\* No session of 04-GeoPandas.
OffGeoPandas ==
    /\ gp = <<>>
    /\ gp_cell = "off"

\* gdf_paris_districts = gpd.read_file("./data/vector/paris_districts_utm.geojson")
ReadDistrictsCell ==
    /\ gp_cell = "start"
    /\ \E crs \in CRSs :
       \E geoms \in {s \in SeqsUpTo(Districts(crs), MaxDistricts) : Len(s) >= 1} :
          gp' = [gp EXCEPT !.gdf_paris_districts = GeoDataFrame(geoms, crs)]
    /\ gp_cell' = "read_districts"
    /\ UNCHANGED others_gp

\* gdf_countries = gpd.read_file("zip://./data/vector/ne_110m_admin_0_countries.zip")
ReadCountriesCell ==
    /\ gp_cell = "read_districts"
    /\ \E crs \in CRSs :
          gp' = [gp EXCEPT !.gdf_countries =
                    GeoDataFrame(<<TransformGeom(4326, crs,
                                                 RectRing(0, 0, GeoMax, GeoMax))>>, crs)]
    /\ gp_cell' = "read_countries"
    /\ UNCHANGED others_gp

\* The buffer cell without crs=: the frame declares no CRS.
BufferWithoutCrsCell ==
    /\ gp_cell = "read_countries"
    /\ gp' = [gp EXCEPT !.gdf_buffer =
                 GeoDataFrame(<<BufferEnvelope(gp.gdf_paris_districts.geoms[1], 1)>>, 0)]
    /\ gp_cell' = "buffer"
    /\ UNCHANGED others_gp

\* buffered_first_district = first_district['geometry'].buffer(500)
\* gdf_buffer = gpd.GeoDataFrame(geometry=[buffered_first_district], crs=gdf_paris_districts.crs)
BufferCell ==
    /\ gp_cell = "read_countries"
    /\ gp' = [gp EXCEPT !.gdf_buffer =
                 GeoDataFrame(<<BufferEnvelope(gp.gdf_paris_districts.geoms[1], 1)>>,
                              gp.gdf_paris_districts.crs)]
    /\ gp_cell' = "buffer"
    /\ UNCHANGED others_gp

\* intersecting_districts = gpd.sjoin(gdf_paris_districts.iloc[1:], gdf_buffer, predicate='intersects')
SJoinIntersectsCell ==
    /\ gp_cell = "buffer"
    /\ gp' = [gp EXCEPT !.intersecting_districts =
                 SJoin(ILocFrom1(gp.gdf_paris_districts), gp.gdf_buffer, "intersects"),
                        !.calls = Append(@, Call("sjoin", ILocFrom1(gp.gdf_paris_districts),
                                                 gp.gdf_buffer))]
    /\ gp_cell' = "sjoin_intersects"
    /\ UNCHANGED others_gp

\* union = gpd.overlay(intersecting_districts, gdf_buffer, how='union')
OverlayCell ==
    /\ gp_cell = "sjoin_intersects"
    /\ gp' = [gp EXCEPT !.union = OverlayUnion(gp.intersecting_districts, gp.gdf_buffer),
                        !.calls = Append(@, Call("overlay", gp.intersecting_districts,
                                                 gp.gdf_buffer))]
    /\ gp_cell' = "overlay"
    /\ UNCHANGED others_gp

\* gdf_points = gpd.GeoDataFrame(point_data, crs=4326)
\* gdf_points = gdf_points.to_crs(gdf_paris_districts.crs)
\* point_in_polygon = gpd.sjoin(gdf_points, gdf_paris_districts, predicate="within")
SJoinWithinCell ==
    /\ gp_cell = "overlay"
    /\ \E pts \in SeqsUpTo(SamplePoints, MaxPoints) :
          LET made == GeoDataFrame(pts, 4326)
              moved == ToCrs(made, gp.gdf_paris_districts.crs)
          IN  gp' = [gp EXCEPT !.gdf_points = moved,
                               !.point_in_polygon =
                                   SJoin(moved, gp.gdf_paris_districts, "within"),
                               !.calls = Append(@, Call("sjoin", moved,
                                                        gp.gdf_paris_districts))]
    /\ gp_cell' = "sjoin_within"
    /\ UNCHANGED others_gp

\* point_geom = gdf_points.iloc[0:1]
\* district = gdf_paris_districts[gdf_paris_districts.contains(point_geom.iloc[0, -1])]
\* With no point, iloc[0, -1] raises IndexError and district is not bound.
ContainsCell ==
    /\ gp_cell = "sjoin_within"
    /\ IF gp.gdf_points.geoms = <<>>
       THEN /\ gp' = gp
            /\ gp_cell' = "contains_raised"
       ELSE /\ gp' = [gp EXCEPT !.district =
                         Masked(gp.gdf_paris_districts,
                                FrameContains(gp.gdf_paris_districts, gp.gdf_points.geoms[1]))]
            /\ gp_cell' = "contains"
    /\ UNCHANGED others_gp

\* The reprojection cell as it would be with to_crs(epsg=3857, inplace=True):
\* the frame bound to gdf_paris_districts itself is reprojected.
ToCrsMercatorInPlaceCell ==
    /\ gp_cell \in {"contains", "contains_raised"}
    /\ gp' = [gp EXCEPT !.gdf_paris_districts = ToCrs(gp.gdf_paris_districts, 3857),
                        !.gdf_paris_districts_mercator =
                            ToCrs(gp.gdf_paris_districts, 3857)]
    /\ gp_cell' = "to_crs_mercator"
    /\ UNCHANGED others_gp

\* gdf_paris_districts_mercator = gdf_paris_districts.to_crs(epsg=3857)
ToCrsMercatorCell ==
    /\ gp_cell \in {"contains", "contains_raised"}
    /\ gp' = [gp EXCEPT !.gdf_paris_districts_mercator =
                 ToCrs(gp.gdf_paris_districts, 3857)]
    /\ gp_cell' = "to_crs_mercator"
    /\ UNCHANGED others_gp

\* gdf_countries_transformed = gdf_countries.to_crs(gdf_paris_districts.crs)
ToCrsCountriesCell ==
    /\ gp_cell = "to_crs_mercator"
    /\ gp' = [gp EXCEPT !.gdf_countries_transformed =
                 ToCrs(gp.gdf_countries, gp.gdf_paris_districts.crs)]
    /\ gp_cell' = "to_crs_countries"
    /\ UNCHANGED others_gp

CellGeoPandas ==
    \/ ReadDistrictsCell
    \/ ReadCountriesCell
    \/ BufferCell
    \/ SJoinIntersectsCell
    \/ OverlayCell
    \/ SJoinWithinCell
    \/ ContainsCell
    \/ ToCrsMercatorCell
    \/ ToCrsCountriesCell


(***************************************************************************)
(* 03-Shapely: buffer analysis for proximity.  Coordinates and distances   *)
(* are in units of 10^-5 degree.                                           *)
(***************************************************************************)

\* The unit of the coordinates: how many make a degree.
UnitsPerDegree == 100000

\* 'create a 500-meter buffer around each park': the distance the notebook's
\* text gives.
WalkingDistanceMeters == 500

\* buffer_distance_meters = 5_000
BufferDistanceMeters == 5000

\* meters_to_degrees = 1 / 111139
MetersPerDegree == 111139

\* location = Point(3, 3)
Location == <<3 * UnitsPerDegree, 3 * UnitsPerDegree>>

\* park1 = Point(2.98, 2.98); park2 = Point(3.1, 3.1)
Park1 == <<298000, 298000>>
Park2 == <<310000, 310000>>

\* The places a park may have: those of the notebook, and the points of a
\* grid of hundredths of a degree around the location.
ParkPoints ==
    {Park1, Park2} \cup
    {<<Location[1] + 1000 * i, Location[2] + 1000 * j>> :
        i \in -MaxOffset..MaxOffset, j \in -MaxOffset..MaxOffset}

\* buffer_distance_meters * meters_to_degrees, rounded down to the unit.
MetersToDegrees(meters) == (meters * UnitsPerDegree) \div MetersPerDegree

\* point.buffer(distance): a polygon of 64 vertices on the circle of that
\* radius about the point (quad_segs=16).  The polygon holds the circle of
\* radius distance * cos(pi / 64), which is above 0.9987 * distance.
Buffer(point, distance) == [centre |-> point, radius |-> distance]

NoBuffer == [centre |-> <<0, 0>>, radius |-> 0]

DistanceSquared(p, q) == (p[1] - q[1]) * (p[1] - q[1]) + (p[2] - q[2]) * (p[2] - q[2])

\* point.within(buffer): the values it can have.  True inside the circle the
\* polygon holds, False on or outside the circle of its vertices (the radius
\* was rounded down by less than a unit); between the two the value depends
\* on the direction of the point from the centre.
WithinBuffer(point, buffer) ==
    LET inner == (buffer.radius * 9987) \div 10000
        outer == buffer.radius + 1
        d2 == DistanceSquared(point, buffer.centre)
    IN  IF d2 < inner * inner THEN {TRUE}
        ELSE IF d2 >= outer * outer THEN {FALSE}
        ELSE BOOLEAN

\* The start of a session whose parks are at p1 and p2.
StartProximity(p1, p2) ==
    /\ pk = [park1_literal |-> p1, park2_literal |-> p2,
             park1 |-> <<0, 0>>, park2 |-> <<0, 0>>, location |-> <<0, 0>>,
             buffer_distance_degrees |-> 0,
             park1_buffer |-> NoBuffer, park2_buffer |-> NoBuffer,
             location_within_park1_buffer |-> FALSE,
             location_within_park2_buffer |-> FALSE]
    /\ pk_cell = "start"

\* No session of the proximity example.
OffProximity ==
    /\ pk = <<>>
    /\ pk_cell = "off"

\* park1 = Point(2.98, 2.98); park2 = Point(3.1, 3.1); location = Point(3, 3)
ParksCell ==
    /\ pk_cell = "start"
    /\ pk' = [pk EXCEPT !.park1 = pk.park1_literal,
                        !.park2 = pk.park2_literal,
                        !.location = Location]
    /\ pk_cell' = "parks"
    /\ UNCHANGED others_pk

\* buffer_distance_meters = 5_000; meters_to_degrees = 1 / 111139
\* buffer_distance_degrees = buffer_distance_meters * meters_to_degrees
\* park1_buffer = park1.buffer(buffer_distance_degrees)
\* park2_buffer = park2.buffer(buffer_distance_degrees)
ParkBuffersCell ==
    /\ pk_cell = "parks"
    /\ LET buffer_distance_degrees == MetersToDegrees(BufferDistanceMeters)
       IN  pk' = [pk EXCEPT !.buffer_distance_degrees = buffer_distance_degrees,
                            !.park1_buffer = Buffer(pk.park1, buffer_distance_degrees),
                            !.park2_buffer = Buffer(pk.park2, buffer_distance_degrees)]
    /\ pk_cell' = "park_buffers"
    /\ UNCHANGED others_pk

\* location_within_park1_buffer = location.within(park1_buffer)
\* location_within_park2_buffer = location.within(park2_buffer)
LocationWithinCell ==
    /\ pk_cell = "park_buffers"
    /\ \E in1 \in WithinBuffer(pk.location, pk.park1_buffer),
          in2 \in WithinBuffer(pk.location, pk.park2_buffer) :
          pk' = [pk EXCEPT !.location_within_park1_buffer = in1,
                           !.location_within_park2_buffer = in2]
    /\ pk_cell' = "location_within"
    /\ UNCHANGED others_pk

CellProximity ==
    \/ ParksCell
    \/ ParkBuffersCell
    \/ LocationWithinCell
(***************************************************************************)
(* Rasterio (the raster cells of 01-Pandas.ipynb) and 06-XArray: a raster  *)
(* file, crop, clip, resample, reproject.  Coordinates are integers, a     *)
(* pixel is PixelSize wide and high, and pixel (row, col) covers           *)
(* x in [(col-1)*PixelSize, col*PixelSize] and, counting y from the        *)
(* raster's top edge, y in [(row-1)*PixelSize, row*PixelSize].             *)
(***************************************************************************)

\* The pixel size of the geotransform, in units of the model's coordinates.
PixelSize == 4

\* The value a file that declares a no-data value gives its no-data pixels.
SrcNoData == -9999

\* The raster files: a height and a width in pixels, and whether the file
\* declares a no-data value, which its first pixel then holds.
RasterFiles == [height : 1..MaxDim, width : 1..MaxDim, declares_nodata : BOOLEAN]

\* No raster file.
NoRasterFile == [height |-> 0, width |-> 0, declares_nodata |-> FALSE]

\* Whether pixel (r, c) of the file is a no-data pixel.
IsNoData(file, r, c) == file.declares_nodata /\ r = 1 /\ c = 1

\* src.read(1)[r - 1, c - 1]: every valid pixel holds a value of its own.
Value(file, r, c) ==
    IF IsNoData(file, r, c) THEN SrcNoData ELSE (r - 1) * file.width + c

\* The centre of pixel (r, c) of the raster.
Centre(r, c) ==
    <<(c - 1) * PixelSize + PixelSize \div 2, (r - 1) * PixelSize + PixelSize \div 2>>

\* box(xmin, ymin, xmax, ymax): shapely's vertex order.
Box(xmin, ymin, xmax, ymax) ==
    <<<<xmax, ymin>>, <<xmax, ymax>>, <<xmin, ymax>>, <<xmin, ymin>>, <<xmax, ymin>>>>

\* The coordinates a bounding box may have: any but those through a pixel's
\* centre.
BoxCoords ==
    {x \in 0..MaxBox : x % PixelSize # PixelSize \div 2}

\* The bounding boxes: [xmin, ymin, xmax, ymax].
BBoxes ==
    {b \in [xmin : BoxCoords, ymin : BoxCoords, xmax : BoxCoords, ymax : BoxCoords] :
        b.xmin < b.xmax /\ b.ymin < b.ymax}

BoxOf(b) == Box(b.xmin, b.ymin, b.xmax, b.ymax)

FloorDiv(a, b) == a \div b
CeilDiv(a, b) == (a + b - 1) \div b

\* The window of pad=True: the bounds grown by half a pixel before rounding.
GeometryWindowPadded(file, b) ==
    [col_off |-> Max(FloorDiv(b.xmin - PixelSize \div 2, PixelSize), 0),
     row_off |-> Max(FloorDiv(b.ymin - PixelSize \div 2, PixelSize), 0),
     col_end |-> Min(CeilDiv(b.xmax + PixelSize \div 2, PixelSize), file.width),
     row_end |-> Min(CeilDiv(b.ymax + PixelSize \div 2, PixelSize), file.height)]

\* rasterio.features.geometry_window: the pixel window that covers the
\* bounds of the shapes, from the floor of the least to the ceiling of the
\* greatest pixel coordinate, cut to the raster.
GeometryWindow(file, b) ==
    [col_off |-> Max(FloorDiv(b.xmin, PixelSize), 0),
     row_off |-> Max(FloorDiv(b.ymin, PixelSize), 0),
     col_end |-> Min(CeilDiv(b.xmax, PixelSize), file.width),
     row_end |-> Min(CeilDiv(b.ymax, PixelSize), file.height)]

\* The pixels of a window as a grid: what it holds, where its first pixel's
\* corner lies, and the no-data value it declares.
Grid2D(file, win, keep, nodata) ==
    [data |-> [r \in 1..(win.row_end - win.row_off) |->
                 [c \in 1..(win.col_end - win.col_off) |->
                    IF <<win.row_off + r, win.col_off + c>> \in keep
                    THEN Value(file, win.row_off + r, win.col_off + c)
                    ELSE nodata]],
     origin |-> <<win.col_off * PixelSize, win.row_off * PixelSize>>,
     row_off |-> win.row_off,
     col_off |-> win.col_off,
     nodata |-> nodata,
     err |-> "none"]

Failed(kind) ==
    [data |-> <<>>, origin |-> <<0, 0>>, row_off |-> 0, col_off |-> 0,
     nodata |-> 0, err |-> kind]

\* The pixels of the raster whose centre is within the box.
InsidePixels(file, b) ==
    {p \in (1..file.height) \X (1..file.width) : Within(Centre(p[1], p[2]), BoxOf(b))}

\* rio_mask(src, shapes, nodata=nodata, crop=True): the window of the shapes,
\* read masked (the file's no-data pixels are masked); a pixel is kept when
\* its centre is within the shape (all_touched=False) and it is not masked;
\* the others are filled with nodata.  Shapes that do not overlap the raster
\* raise ValueError.
RioMask(file, b, nodata) ==
    LET win == GeometryWindow(file, b)
    IN  IF win.col_end <= win.col_off \/ win.row_end <= win.row_off
        THEN Failed("ValueError")
        ELSE Grid2D(file, win,
                    {p \in InsidePixels(file, b) : ~IsNoData(file, p[1], p[2])},
                    nodata)

SetMin(S) == CHOOSE x \in S : \A y \in S : x <= y
SetMax(S) == CHOOSE x \in S : \A y \in S : x >= y

\* ds.rio.clip([shape]): all_touched=False, drop=True.  The pixels whose
\* centre is not within the shape are set to the file's no-data value, and
\* the grid is cut to the window of the pixels that are; no such pixel raises
\* NoDataInBounds.  The file was opened unmasked: its no-data pixels keep
\* their value.
RioClip(file, b) ==
    LET inside == InsidePixels(file, b)
        win == [row_off |-> SetMin({p[1] : p \in inside}) - 1,
                row_end |-> SetMax({p[1] : p \in inside}),
                col_off |-> SetMin({p[2] : p \in inside}) - 1,
                col_end |-> SetMax({p[2] : p \in inside})]
    IN  IF inside = {}
        THEN Failed("NoDataInBounds")
        ELSE Grid2D(file, win,
                    inside,
                    SrcNoData)

\* The shape asked of a read that divides the other way round.
OutShapeSwapped(file, factor) ==
    [rows |-> file.width \div factor, cols |-> file.height \div factor]

\* out_shape=(src.height // resampling_factor, src.width // resampling_factor)
OutShape(file, factor) ==
    [rows |-> file.height \div factor, cols |-> file.width \div factor]

\* src.read(1, out_shape=shape, resampling=Resampling.bilinear): an array of
\* the shape asked for.
ReadResampled(file, shape) == [rows |-> shape.rows, cols |-> shape.cols]

\* The start of a session on the raster file f.
NoGrid == Failed("unbound")
NoBBox == [xmin |-> 0, ymin |-> 0, xmax |-> 0, ymax |-> 0]

StartRasterio(f) ==
    /\ raster_file = f
    /\ rs = [nairobi_bbox |-> NoBBox,
             nairobi_elevation |-> NoGrid,
             resampling_factor |-> 0,
             resampled_elevation_data |-> [rows |-> 0, cols |-> 0]]
    /\ rs_cell = "start"

\* No session of the raster cells.
OffRasterio ==
    /\ rs = <<>>
    /\ rs_cell = "off"

\* xmin, ymin, xmax, ymax = ...; nairobi_bbox = box(xmin, ymin, xmax, ymax)
\* nairobi_gdf = gpd.GeoDataFrame(geometry=[nairobi_bbox], crs="EPSG:4326")
NairobiBBoxCell ==
    /\ rs_cell = "start"
    /\ \E b \in BBoxes : rs' = [rs EXCEPT !.nairobi_bbox = b]
    /\ rs_cell' = "bbox"
    /\ UNCHANGED <<raster_file, vars_xa, others_rs>>

\* with rio.open(nairobi_elevation_file) as src:
\*     nairobi_elevation_data, nairobi_transform = rio_mask(src, nairobi_gdf.geometry, nodata=0.0, crop=True)
CropCell ==
    /\ rs_cell = "bbox"
    /\ LET out == RioMask(raster_file, rs.nairobi_bbox, 0)
       IN  /\ rs' = IF out.err = "none" THEN [rs EXCEPT !.nairobi_elevation = out] ELSE rs
           /\ rs_cell' = IF out.err = "none" THEN "crop" ELSE "crop_failed"
    /\ UNCHANGED <<raster_file, vars_xa, others_rs>>

\* resampling_factor = 32
\* with rio.open(nairobi_elevation_file) as src:
\*     resampled_elevation_data = src.read(1, out_shape=(...), resampling=Resampling.bilinear)
ResampleCell ==
    /\ rs_cell \in {"crop", "crop_failed"}
    /\ \E factor \in 1..MaxFactor :
          rs' = [rs EXCEPT !.resampling_factor = factor,
                           !.resampled_elevation_data =
                               ReadResampled(raster_file, OutShape(raster_file, factor))]
    /\ rs_cell' = "resample"
    /\ UNCHANGED <<raster_file, vars_xa, others_rs>>

CellRasterio ==
    \/ NairobiBBoxCell
    \/ CropCell
    \/ ResampleCell

(***************************************************************************)
(* 06-XArray: the rioxarray cells.                                         *)
(***************************************************************************)

\* The longitude and latitude of the raster of Nairobi, in whole degrees.
NairobiLonLat == <<36, -2>>

\* ds.rio.estimate_utm_crs(): the UTM zone of the dataset's centre, north
\* (EPSG:326xx) or south (EPSG:327xx) of the equator.
EstimateUtmCrs(lonlat) ==
    (IF lonlat[2] >= 0 THEN 32600 ELSE 32700) + ((lonlat[1] + 180) \div 6) + 1

\* A reprojection that forgets to write the new CRS.
ReprojectKeepsCrs(ds, crs, shape) ==
    [crs |-> ds.crs, height |-> shape[1], width |-> shape[2]]

\* ds.rio.reproject(crs, shape=shape): a grid of the shape asked for (or of
\* the shape the warp suggests) that declares crs.
Reproject(ds, crs, shape) ==
    [crs |-> crs, height |-> shape[1], width |-> shape[2]]

NoDataset == [crs |-> 0, height |-> 0, width |-> 0]

StartXArray(f) ==
    /\ raster_file = f
    /\ xa = [ds |-> NoDataset,
             resampled_ds |-> NoDataset,
             nairobi_bbox |-> NoBBox,
             clipped_ds |-> NoGrid,
             dest_crs |-> 0,
             ds_utm |-> NoDataset]
    /\ xa_cell = "start"

\* No session of 06-XArray.
OffXArray ==
    /\ xa = <<>>
    /\ xa_cell = "off"

\* ds = rioxarray.open_rasterio("./data/raster/nairobi_elevation.tiff")
OpenRasterioCell ==
    /\ xa_cell = "start"
    /\ xa' = [xa EXCEPT !.ds = [crs |-> 4326, height |-> raster_file.height,
                                width |-> raster_file.width]]
    /\ xa_cell' = "open_rasterio"
    /\ UNCHANGED <<raster_file, vars_rs, others_rs>>

\* upscale_factor = 2
\* resampled_ds = ds.rio.reproject(ds.rio.crs, shape=(new_height, new_width), resampling=Resampling.bilinear)
UpscaleCell ==
    /\ xa_cell = "open_rasterio"
    /\ xa' = [xa EXCEPT !.resampled_ds =
                 Reproject(xa.ds, xa.ds.crs, <<xa.ds.height * 2, xa.ds.width * 2>>)]
    /\ xa_cell' = "upscale"
    /\ UNCHANGED <<raster_file, vars_rs, others_rs>>

\* nairobi_bbox = box(xmin, ymin, xmax, ymax)
\* clipped_ds = ds.rio.clip([nairobi_bbox])
ClipCell ==
    /\ xa_cell = "upscale"
    /\ \E b \in BBoxes :
          LET out == RioClip(raster_file, b)
          IN  /\ xa' = IF out.err = "none"
                       THEN [xa EXCEPT !.nairobi_bbox = b, !.clipped_ds = out]
                       ELSE [xa EXCEPT !.nairobi_bbox = b]
              /\ xa_cell' = IF out.err = "none" THEN "clip" ELSE "clip_failed"
    /\ UNCHANGED <<raster_file, vars_rs, others_rs>>

\* dest_crs = ds.rio.estimate_utm_crs()
EstimateUtmCell ==
    /\ xa_cell \in {"clip", "clip_failed"}
    /\ xa' = [xa EXCEPT !.dest_crs = EstimateUtmCrs(NairobiLonLat)]
    /\ xa_cell' = "estimate_utm"
    /\ UNCHANGED <<raster_file, vars_rs, others_rs>>

\* ds_utm = ds.rio.reproject(dest_crs): the warp suggests the shape.
ReprojectCell ==
    /\ xa_cell = "estimate_utm"
    /\ \E h \in 1..MaxDim, w \in 1..MaxDim :
          xa' = [xa EXCEPT !.ds_utm = Reproject(xa.ds, xa.dest_crs, <<h, w>>)]
    /\ xa_cell' = "reproject"
    /\ UNCHANGED <<raster_file, vars_rs, others_rs>>

CellXArray ==
    \/ OpenRasterioCell
    \/ UpscaleCell
    \/ ClipCell
    \/ EstimateUtmCell
    \/ ReprojectCell


(***************************************************************************)
(* Rasterio: the cells that transform pixel coordinates to geographic      *)
(* coordinates and back.  Rows and columns count from 0, as in the code;   *)
(* geographic coordinates are kept in halves of a unit, since the centre   *)
(* of a pixel lies half a pixel from its corner.                           *)
(***************************************************************************)

\* Affine(a, b, c, d, e, f) of a north-up raster: x = a * col + c and
\* y = e * row + f, with a the pixel width, e the negated pixel height and
\* (c, f) the top-left corner.
Geotransforms ==
    [a : {PixelSize}, b : {0}, c : -MaxOrigin..MaxOrigin,
     d : {0}, e : {-PixelSize}, f : -MaxOrigin..MaxOrigin]

NoGeotransform == [a |-> 0, b |-> 0, c |-> 0, d |-> 0, e |-> 0, f |-> 0]

\* floor(n / d) for a divisor of either sign.
FloorQuotient(n, d) == IF d > 0 THEN n \div d ELSE (-n) \div (-d)

\* The coordinates of the pixel's lower right corner.
XYLowerRight(t, row, col) ==
    <<t.a * (2 * col + 2) + 2 * t.c, t.e * (2 * row + 2) + 2 * t.f>>

\* src.xy(row, col): offset='center', the transform applied to
\* (col + 0.5, row + 0.5); the result is in halves.
XY(t, row, col) ==
    <<t.a * (2 * col + 1) + 2 * t.c, t.e * (2 * row + 1) + 2 * t.f>>

\* src.index(x, y): the inverse transform applied to (x, y), then
\* op=math.floor on the row and on the column; x and y are in halves.
Index(t, x, y) ==
    <<FloorQuotient(y - 2 * t.f, 2 * t.e), FloorQuotient(x - 2 * t.c, 2 * t.a)>>

NoPixel == <<-1, -1>>

\* The start of a session on the raster file f whose geotransform is t.
StartTransform(f, t) ==
    /\ raster_file = f
    /\ tf = [transform |-> t, center |-> NoPixel, geo |-> <<0, 0>>, pixel |-> NoPixel]
    /\ tf_cell = "start"

\* No session of the transform cells.
OffTransform ==
    /\ tf = <<>>
    /\ tf_cell = "off"

\* with rio.open(nairobi_elevation_file) as src:
\*     center_x, center_y = src.width // 2, src.height // 2
\*     geo_x, geo_y = src.xy(center_y, center_x)
XyCell ==
    /\ tf_cell = "start"
    /\ LET center_x == raster_file.width \div 2
           center_y == raster_file.height \div 2
       IN  tf' = [tf EXCEPT !.center = <<center_y, center_x>>,
                            !.geo = XY(tf.transform, center_y, center_x)]
    /\ tf_cell' = "xy"
    /\ UNCHANGED others_tf

\* with rio.open(nairobi_elevation_file) as src:
\*     row, col = src.index(geo_x, geo_y)
IndexCell ==
    /\ tf_cell = "xy"
    /\ tf' = [tf EXCEPT !.pixel = Index(tf.transform, tf.geo[1], tf.geo[2])]
    /\ tf_cell' = "index"
    /\ UNCHANGED others_tf

CellTransform ==
    \/ XyCell
    \/ IndexCell
(***************************************************************************)
(* The kernel: the cells that load files, run statement by statement.  A   *)
(* statement that raises ends its cell: the notebooks have no try, except  *)
(* or finally, so the traceback goes to the cell's output and the kernel   *)
(* waits for the next cell.  A with block closes its file on the way out.  *)
(***************************************************************************)

\* The paths the statements name.
TitanicCsv == "./data/tabular/titanic.csv"
RasterStore == "./data/raster/"
NairobiTiff == "./data/raster/nairobi_elevation.tiff"
DistrictsGeoJson == "./data/vector/paris_districts_utm.geojson"
CountriesZip == "zip://./data/vector/ne_110m_admin_0_countries.zip"
ForecastsNc == "./data/raster/ecmwf_forecasts.nc"
OutputTif == "./data/raster/your_output_file.tif"

Paths == {TitanicCsv, RasterStore, NairobiTiff, DistrictsGeoJson, CountriesZip, ForecastsNc}

\* The disks: a file of the raster store is in the raster store.
Disks == {d \in SUBSET Paths : NairobiTiff \in d \/ ForecastsNc \in d => RasterStore \in d}

\* The statements: what they do, the name they bind or use, the path they
\* name, the library function they call.
Stmt(op, name, path, lib) == [op |-> op, name |-> name, path |-> path, lib |-> lib]

Notebooks == {"01-Pandas", "Rasterio", "04-GeoPandas", "06-XArray"}

\* The cells of a notebook that check for or load a file, as the statements
\* they are made of.
NotebookCells(nb) ==
    CASE nb = "01-Pandas" ->
           << <<Stmt("assign", "file_path", TitanicCsv, "Path"),
                Stmt("assert_exists", "file_path", TitanicCsv, "Path.exists")>>,
              <<Stmt("load", "df", TitanicCsv, "pd.read_csv")>> >>
      [] nb = "Rasterio" ->
           << <<Stmt("assign", "store", RasterStore, "Path"),
                Stmt("assert_exists", "store", RasterStore, "Path.exists")>>,
              <<Stmt("assign", "nairobi_elevation_file", NairobiTiff, "Path"),
                Stmt("with_open", "src", NairobiTiff, "rio.open"),
                Stmt("call", "src", NairobiTiff, "print"),
                Stmt("with_exit", "src", NairobiTiff, "rio.open")>>,
              <<Stmt("with_open", "src", NairobiTiff, "rio.open"),
                Stmt("rio_mask", "nairobi_elevation_data", NairobiTiff, "rio_mask"),
                Stmt("with_exit", "src", NairobiTiff, "rio.open"),
                Stmt("call", "nairobi_elevation_data", NairobiTiff, "plt.figure"),
                Stmt("call", "nairobi_elevation_data", NairobiTiff, "plt.imshow"),
                Stmt("call", "nairobi_elevation_data", NairobiTiff, "plt.colorbar"),
                Stmt("call", "nairobi_elevation_data", NairobiTiff, "plt.title"),
                Stmt("call", "nairobi_elevation_data", NairobiTiff, "plt.show")>>,
              <<Stmt("with_open", "src", NairobiTiff, "rio.open"),
                Stmt("assign", "output_filename", OutputTif, "str"),
                Stmt("with_create", "dst", OutputTif, "rio.open"),
                Stmt("call", "dst", OutputTif, "dst.write"),
                Stmt("with_exit", "dst", OutputTif, "rio.open"),
                Stmt("with_exit", "src", NairobiTiff, "rio.open")>> >>
      [] nb = "04-GeoPandas" ->
           << <<Stmt("load", "gdf_paris_districts", DistrictsGeoJson, "gpd.read_file"),
                Stmt("call", "gdf_paris_districts", DistrictsGeoJson, "head")>>,
              <<Stmt("load", "gdf_countries", CountriesZip, "gpd.read_file"),
                Stmt("call", "gdf_countries", CountriesZip, "head")>> >>
      [] nb = "06-XArray" ->
           << <<Stmt("load", "ds", ForecastsNc, "xr.open_dataset"),
                Stmt("call", "ds", ForecastsNc, "repr")>>,
              <<Stmt("load", "ds", NairobiTiff, "rioxarray.open_rasterio"),
                Stmt("call", "ds", NairobiTiff, "plot")>> >>

Names ==
    {"file_path", "df", "store", "nairobi_elevation_file", "src",
     "nairobi_elevation_data", "gdf_paris_districts", "gdf_countries", "ds",
     "output_filename", "dst"}

\* What a name is bound to: the library call that made the value and the
\* path it was made from.
Unbound == [lib |-> "none", path |-> "none"]
ValueOf(s) == [lib |-> s.lib, path |-> s.path]

NoSuchFile == "No such file or directory"

\* The exception a library raises when the path it is to read is missing.
\* pandas and xarray raise the builtin FileNotFoundError; rasterio (and
\* rioxarray through it) raises RasterioIOError, an OSError; geopandas
\* raises its engine's DataSourceError.  All three report NoSuchFile.
MissingError(lib) ==
    [class |-> CASE lib \in {"pd.read_csv", "xr.open_dataset"} -> "FileNotFoundError"
                 [] lib \in {"rio.open", "rioxarray.open_rasterio"} -> "RasterioIOError"
                 [] lib = "gpd.read_file" -> "DataSourceError"
                 [] OTHER -> "OSError",
     reason |-> NoSuchFile]

AssertionError == [class |-> "AssertionError", reason |-> "assert"]
ValueError == [class |-> "ValueError", reason |-> "Input shapes do not overlap raster."]

\* The kind of an error: FileNotFound for the errors that report a missing
\* path.
KindOf(e) ==
    IF e.class = "FileNotFoundError"
       \/ (e.class \in {"RasterioIOError", "DataSourceError", "OSError"} /\ e.reason = NoSuchFile)
    THEN "FileNotFound"
    ELSE e.class

\* The statement the kernel is at.
Current(k) == NotebookCells(k.notebook)[k.cell][k.stmt]

\* A handler that swallows the exception and goes on with the next
\* statement of the cell.
RaiseAndGoOn(k, e) ==
    [k EXCEPT !.errors = Append(@, [cell |-> k.cell, stmt |-> k.stmt, error |-> e]),
              !.stmt = IF k.stmt = Len(NotebookCells(k.notebook)[k.cell]) THEN 0 ELSE k.stmt + 1]

\* The statement raised e: the with blocks it is in close their files, the
\* traceback is shown, and the cell is over.
Raise(k, e) ==
    [k EXCEPT !.errors = Append(@, [cell |-> k.cell, stmt |-> k.stmt, error |-> e]),
              !.handles = {},
              !.stmt = 0]

\* The statement is done: on to the next, or the cell is over.
Done(k) ==
    [k EXCEPT !.ran = Append(@, <<k.cell, k.stmt>>),
              !.stmt = IF k.stmt = Len(NotebookCells(k.notebook)[k.cell]) THEN 0 ELSE k.stmt + 1]

\* A load that binds a frame of the path before it fails.
LoadBindsFirst(k, s, disk) ==
    IF s.path \in disk
    THEN Done([k EXCEPT !.bound[s.name] = ValueOf(s)])
    ELSE Raise([k EXCEPT !.bound[s.name] = ValueOf(s)], MissingError(s.lib))

\* name = lib(path): the call raises on a missing path, and then nothing is
\* assigned.
Load(k, s, disk) ==
    IF s.path \in disk
    THEN Done([k EXCEPT !.bound[s.name] = ValueOf(s)])
    ELSE Raise(k, MissingError(s.lib))

\* The calls that return a lazily loaded dataset: the file is opened, the
\* values are read when they are used, and the file stays open until the
\* dataset is closed or collected.
OpensLazily(lib) == lib \in {"xr.open_dataset", "rioxarray.open_rasterio"}

\* The directory a file is created in.
DirOf(path) == IF path = OutputTif THEN RasterStore ELSE "none"

\* The start of a session of notebook nb on disk d; overlaps tells whether
\* the box of the crop lies over the raster.
StartKernel(nb, d, overlaps) ==
    /\ fs = d
    /\ kernel = [notebook |-> nb,
                 overlaps |-> overlaps,
                 bound |-> [n \in Names |-> Unbound],
                 handles |-> {},
                 lazy |-> {},
                 cell |-> 0,
                 stmt |-> 0,
                 ran |-> <<>>,
                 errors |-> <<>>]

\* No session of the kernel.
OffKernel ==
    /\ fs = {}
    /\ kernel = <<>>

\* The user runs the next cell; the one before is over, with or without an
\* error.
RunCell ==
    /\ kernel.stmt = 0
    /\ kernel.cell < Len(NotebookCells(kernel.notebook))
    /\ kernel' = [kernel EXCEPT !.cell = kernel.cell + 1, !.stmt = 1]
    /\ UNCHANGED <<fs, others_kn>>

AtStmt(op) == kernel.stmt > 0 /\ Current(kernel).op = op

\* name = Path(path)
ExecAssign ==
    /\ AtStmt("assign")
    /\ kernel' = Done([kernel EXCEPT !.bound[Current(kernel).name] = ValueOf(Current(kernel))])
    /\ UNCHANGED <<fs, others_kn>>

\* assert name.exists()
ExecAssert ==
    /\ AtStmt("assert_exists")
    /\ kernel' = IF Current(kernel).path \in fs THEN Done(kernel)
                 ELSE Raise(kernel, AssertionError)
    /\ UNCHANGED <<fs, others_kn>>

\* name = pd.read_csv(path), gpd.read_file(path), xr.open_dataset(path),
\* rioxarray.open_rasterio(path)
\* A lazily loaded dataset keeps its file open after the statement; the
\* dataset the name was bound to before is closed if nothing else refers to
\* it and it is collected, and stays open otherwise.
ExecLoad ==
    /\ AtStmt("load")
    /\ LET s == Current(kernel)
           loaded == Load(kernel, s, fs)
           before == kernel.bound[s.name]
       IN  IF s.path \in fs /\ OpensLazily(s.lib)
           THEN \E collected \in (IF before.path \in kernel.lazy THEN BOOLEAN ELSE {FALSE}) :
                   kernel' = [loaded EXCEPT
                                 !.lazy = (IF collected THEN @ \ {before.path} ELSE @)
                                              \cup {s.path}]
           ELSE kernel' = loaded
    /\ UNCHANGED <<fs, others_kn>>

\* with rio.open(path) as name:
ExecWithOpen ==
    /\ AtStmt("with_open")
    /\ LET s == Current(kernel)
           opened == Load(kernel, s, fs)
       IN  kernel' = IF s.path \in fs
                     THEN [opened EXCEPT !.handles = @ \cup {s.name}]
                     ELSE opened
    /\ UNCHANGED <<fs, others_kn>>

\* with rio.open(path, 'w', **metadata) as name: the file is created in its
\* directory.
ExecWithCreate ==
    /\ AtStmt("with_create")
    /\ LET s == Current(kernel)
       IN  IF DirOf(s.path) \in fs
           THEN /\ kernel' = [Done([kernel EXCEPT !.bound[s.name] = ValueOf(s)])
                                 EXCEPT !.handles = @ \cup {s.name}]
                /\ fs' = fs \cup {s.path}
           ELSE /\ kernel' = Raise(kernel, MissingError(s.lib))
                /\ fs' = fs
    /\ UNCHANGED others_kn

\* nairobi_elevation_data, nairobi_transform = rio_mask(src, ...)
ExecRioMask ==
    /\ AtStmt("rio_mask")
    /\ kernel' = IF kernel.overlaps
                 THEN Done([kernel EXCEPT !.bound[Current(kernel).name] = ValueOf(Current(kernel))])
                 ELSE Raise(kernel, ValueError)
    /\ UNCHANGED <<fs, others_kn>>

\* The end of a with block: the file is closed.
ExecWithExit ==
    /\ AtStmt("with_exit")
    /\ kernel' = Done([kernel EXCEPT !.handles = @ \ {Current(kernel).name}])
    /\ UNCHANGED <<fs, others_kn>>

\* print(...), plt.imshow(...), frame.head(): a call that binds nothing.
ExecCall ==
    /\ AtStmt("call")
    /\ kernel' = Done(kernel)
    /\ UNCHANGED <<fs, others_kn>>

CellKernel ==
    \/ RunCell
    \/ ExecAssign
    \/ ExecAssert
    \/ ExecLoad
    \/ ExecWithOpen
    \/ ExecWithCreate
    \/ ExecRioMask
    \/ ExecWithExit
    \/ ExecCall


(***************************************************************************)
(* Rasterio: the cell that copies a raster band by band, run statement by  *)
(* statement.  A band's pixels are one value; a band that was created and  *)
(* never written reads as 0.                                               *)
(***************************************************************************)

\* The raster files the cell may find at nairobi_elevation_file.
SourceFiles ==
    UNION {[height : 1..MaxDim, width : 1..MaxDim, declares_nodata : {FALSE},
            count : {n}, dtype : {"int16", "float32"}, crs : {4326},
            transform : {t \in Geotransforms : t.c = 0 /\ t.f = 0},
            bands : [1..n -> 0..MaxData]] : n \in 1..MaxBands}

\* No file at output_filename.
NoOutput ==
    [height |-> 0, width |-> 0, count |-> 0, dtype |-> "", crs |-> 0,
     transform |-> NoGeotransform, bands |-> <<>>]

NoMetadata ==
    [driver |-> "", width |-> 0, height |-> 0, count |-> 0, dtype |-> "", crs |-> 0,
     transform |-> NoGeotransform]

\* A range that stops one short.
RangeShort(n) == [k \in 1..(n - 1) |-> k - 1]

\* range(n): 0, 1, ..., n - 1.
Range(n) == [k \in 1..n |-> k - 1]

\* rio.open(output_filename, 'w', **metadata): a new file of the shape, the
\* count, the dtype, the CRS and the transform of the metadata.
Create(metadata) ==
    [height |-> metadata.height, width |-> metadata.width, count |-> metadata.count,
     dtype |-> metadata.dtype, crs |-> metadata.crs, transform |-> metadata.transform,
     bands |-> [i \in 1..metadata.count |-> 0]]

\* src.read(indexes) and dst.write(arr, indexes) take the index of a band of
\* the dataset, counted from 1; any other index raises IndexError.
HasBand(file, index) == index \in 1..file.count

\* src.read(index)
Read(file, index) == file.bands[index]

\* dst.write(arr, index)
Write(file, arr, index) == [file EXCEPT !.bands[index] = arr]

\* The start of a session on the file f; the directory of output_filename
\* exists or not.
StartCopy(f, dir_exists) ==
    /\ raster_file = f
    /\ cp = [dir_exists |-> dir_exists,
             open |-> {},
             metadata |-> NoMetadata,
             output |-> NoOutput,
             iter |-> <<>>,
             next |-> 0,
             writes |-> <<>>,
             err |-> "none"]
    /\ cp_cell = "start"

\* No session of the copy cell.
OffCopy ==
    /\ cp = <<>>
    /\ cp_cell = "off"

\* with rio.open(nairobi_elevation_file) as src:
OpenSrcStmt ==
    /\ cp_cell = "start"
    /\ cp' = [cp EXCEPT !.open = {"src"}]
    /\ cp_cell' = "open_src"
    /\ UNCHANGED others_cp

\* output_filename = './data/raster/your_output_file.tif'
\* metadata = {'driver': 'GTiff', 'width': src.width, ..., 'transform': src.transform}
MetadataStmt ==
    /\ cp_cell = "open_src"
    /\ cp' = [cp EXCEPT !.metadata =
                 [driver |-> "GTiff",
                  width |-> raster_file.width,
                  height |-> raster_file.height,
                  count |-> raster_file.count,
                  dtype |-> raster_file.dtype,
                  crs |-> raster_file.crs,
                  transform |-> raster_file.transform]]
    /\ cp_cell' = "metadata"
    /\ UNCHANGED others_cp

\* with rio.open(output_filename, 'w', **metadata) as dst:
\*     for band_index in range(src.count):
\* Without the directory the open raises, and the outer with block closes src.
CreateDstStmt ==
    /\ cp_cell = "metadata"
    /\ IF cp.dir_exists
       THEN /\ cp' = [cp EXCEPT !.open = {"src", "dst"},
                                !.output = Create(cp.metadata),
                                !.iter = Range(raster_file.count),
                                !.next = 1]
            /\ cp_cell' = "create_dst"
       ELSE /\ cp' = [cp EXCEPT !.open = {}, !.err = "RasterioIOError"]
            /\ cp_cell' = "raised"
    /\ UNCHANGED others_cp

\*         dst.write(src.read(band_index + 1), band_index + 1)
\* One turn of the loop; an IndexError leaves both with blocks.
WriteBandStmt ==
    /\ cp_cell \in {"create_dst", "write"}
    /\ cp.next <= Len(cp.iter)
    /\ LET band_index == cp.iter[cp.next]
       IN  IF HasBand(raster_file, band_index + 1) /\ HasBand(cp.output, band_index + 1)
           THEN /\ cp' = [cp EXCEPT !.output = Write(cp.output,
                                                     Read(raster_file, band_index + 1),
                                                     band_index + 1),
                                    !.writes = Append(cp.writes, band_index + 1),
                                    !.next = cp.next + 1]
                /\ cp_cell' = "write"
           ELSE /\ cp' = [cp EXCEPT !.open = {}, !.err = "IndexError"]
                /\ cp_cell' = "raised"
    /\ UNCHANGED others_cp

\* The loop is over: the inner with block closes dst.
ExitDstStmt ==
    /\ cp_cell \in {"create_dst", "write"}
    /\ cp.next > Len(cp.iter)
    /\ cp' = [cp EXCEPT !.open = cp.open \ {"dst"}]
    /\ cp_cell' = "exit_dst"
    /\ UNCHANGED others_cp

\* The outer with block closes src: the cell is over.
ExitSrcStmt ==
    /\ cp_cell = "exit_dst"
    /\ cp' = [cp EXCEPT !.open = cp.open \ {"src"}]
    /\ cp_cell' = "done"
    /\ UNCHANGED others_cp

CellCopy ==
    \/ OpenSrcStmt
    \/ MetadataStmt
    \/ CreateDstStmt
    \/ WriteBandStmt
    \/ ExitDstStmt
    \/ ExitSrcStmt

(***************************************************************************)
(* Rasterio: the cells that use a dataset object, run statement by         *)
(* statement from the first to the last.  A dataset is open from the       *)
(* rio.open of its with block to the end of the block, and closed after.   *)
(***************************************************************************)

AdjustedTif == "./data/raster/out_adjusted_nairobi_elevation.tif"

\* The cells, as the statements that open, use or close a dataset, and the
\* calls that follow them in the cell.
DatasetCells ==
    << <<Stmt("with_open", "src", NairobiTiff, "rio.open"),
         Stmt("access", "src", NairobiTiff, "name"),
         Stmt("with_exit", "src", NairobiTiff, "rio.open")>>,
       <<Stmt("with_open", "src", NairobiTiff, "rio.open"),
         Stmt("access", "src", NairobiTiff, "count"),
         Stmt("access", "src", NairobiTiff, "width"),
         Stmt("access", "src", NairobiTiff, "height"),
         Stmt("access", "src", NairobiTiff, "crs"),
         Stmt("access", "src", NairobiTiff, "transform"),
         Stmt("with_exit", "src", NairobiTiff, "rio.open")>>,
       <<Stmt("with_open", "src", NairobiTiff, "rio.open"),
         Stmt("access", "src", NairobiTiff, "read"),
         Stmt("with_exit", "src", NairobiTiff, "rio.open")>>,
       <<Stmt("with_open", "src", NairobiTiff, "rio.open"),
         Stmt("access", "src", NairobiTiff, "crs"),
         Stmt("with_exit", "src", NairobiTiff, "rio.open")>>,
       <<Stmt("with_open", "src", NairobiTiff, "rio.open"),
         Stmt("access", "src", NairobiTiff, "transform"),
         Stmt("with_exit", "src", NairobiTiff, "rio.open")>>,
       <<Stmt("with_open", "src", NairobiTiff, "rio.open"),
         Stmt("access", "src", NairobiTiff, "width"),
         Stmt("access", "src", NairobiTiff, "height"),
         Stmt("access", "src", NairobiTiff, "xy"),
         Stmt("with_exit", "src", NairobiTiff, "rio.open")>>,
       <<Stmt("with_open", "src", NairobiTiff, "rio.open"),
         Stmt("access", "src", NairobiTiff, "index"),
         Stmt("with_exit", "src", NairobiTiff, "rio.open")>>,
       <<Stmt("with_open", "src", NairobiTiff, "rio.open"),
         Stmt("access", "src", NairobiTiff, "crs"),
         Stmt("with_exit", "src", NairobiTiff, "rio.open")>>,
       <<Stmt("with_open", "src", NairobiTiff, "rio.open"),
         Stmt("access", "src", NairobiTiff, "read"),
         Stmt("access", "src", NairobiTiff, "bounds"),
         Stmt("with_exit", "src", NairobiTiff, "rio.open")>>,
       <<Stmt("call", "none", NairobiTiff, "ax.imshow"),
         Stmt("access", "src", NairobiTiff, "crs"),
         Stmt("call", "none", NairobiTiff, "ctx.add_basemap")>>,
       <<Stmt("with_open", "src", NairobiTiff, "rio.open"),
         Stmt("rio_mask", "src", NairobiTiff, "rio_mask"),
         Stmt("with_exit", "src", NairobiTiff, "rio.open"),
         Stmt("call", "none", NairobiTiff, "plt.imshow")>>,
       <<Stmt("with_open", "src", NairobiTiff, "rio.open"),
         Stmt("access", "src", NairobiTiff, "height"),
         Stmt("access", "src", NairobiTiff, "width"),
         Stmt("access", "src", NairobiTiff, "read"),
         Stmt("with_exit", "src", NairobiTiff, "rio.open"),
         Stmt("call", "none", NairobiTiff, "plt.imshow")>>,
       <<Stmt("with_open", "src", NairobiTiff, "rio.open"),
         Stmt("rio_mask", "src", NairobiTiff, "rio_mask"),
         Stmt("with_exit", "src", NairobiTiff, "rio.open")>>,
       <<Stmt("access", "src", NairobiTiff, "plotting_extent"),
         Stmt("call", "none", NairobiTiff, "plt.imshow")>>,
       <<Stmt("with_open", "src", NairobiTiff, "rio.open"),
         Stmt("access", "src", NairobiTiff, "read"),
         Stmt("with_exit", "src", NairobiTiff, "rio.open")>>,
       <<Stmt("access", "src", NairobiTiff, "meta"),
         Stmt("with_create", "dst", AdjustedTif, "rio.open"),
         Stmt("access", "dst", AdjustedTif, "write"),
         Stmt("with_exit", "dst", AdjustedTif, "rio.open")>>,
       <<Stmt("with_open", "src", NairobiTiff, "rio.open"),
         Stmt("access", "src", NairobiTiff, "width"),
         Stmt("access", "src", NairobiTiff, "height"),
         Stmt("access", "src", NairobiTiff, "count"),
         Stmt("access", "src", NairobiTiff, "dtypes"),
         Stmt("access", "src", NairobiTiff, "crs"),
         Stmt("access", "src", NairobiTiff, "transform"),
         Stmt("with_create", "dst", OutputTif, "rio.open"),
         Stmt("access", "src", NairobiTiff, "count"),
         Stmt("access", "src", NairobiTiff, "read"),
         Stmt("access", "dst", OutputTif, "write"),
         Stmt("with_exit", "dst", OutputTif, "rio.open"),
         Stmt("with_exit", "src", NairobiTiff, "rio.open")>> >>

\* What a closed dataset still gives: the attributes rasterio keeps from the
\* time the file was opened (plotting_extent takes source.bounds).  Reading
\* or writing pixels needs the open file.
KeptWhenClosed(attr) == attr \notin {"read", "write", "rio_mask"}

NameError == [class |-> "NameError", reason |-> "name is not defined"]
ClosedError == [class |-> "RasterioIOError", reason |-> "Dataset is closed"]

\* The start of a session: the raster file and the raster store are on disk
\* or not; overlaps tells whether the box of the crop lies over the raster.
StartDatasets(disk, overlaps) ==
    du = [disk |-> disk,
          overlaps |-> overlaps,
          state |-> [n \in {"src", "dst"} |-> "unbound"],
          cell |-> 0,
          stmt |-> 0,
          accesses |-> <<>>,
          errors |-> <<>>]

\* No session of the dataset cells.
OffDatasets == du = <<>>

DatasetStmt == DatasetCells[du.cell][du.stmt]

AtDatasetStmt(op) == du # <<>> /\ du.stmt > 0 /\ DatasetStmt.op = op

\* The statement is done: on to the next, or the cell is over.
NextStmt(d) ==
    [d EXCEPT !.stmt = IF d.stmt = Len(DatasetCells[d.cell]) THEN 0 ELSE d.stmt + 1]

\* The statement raised e: the with blocks it is in close their datasets,
\* and the cell is over.
RaiseInCell(d, e) ==
    [d EXCEPT !.errors = Append(@, [cell |-> d.cell, stmt |-> d.stmt, error |-> e]),
              !.state = [n \in {"src", "dst"} |-> IF @[n] = "open" THEN "closed" ELSE @[n]],
              !.stmt = 0]

\* A use of the dataset bound to the name, and the state it was in.
Accessed(d, s) ==
    [d EXCEPT !.accesses = Append(@, [cell |-> d.cell, stmt |-> d.stmt, name |-> s.name,
                                      attr |-> s.lib, state |-> d.state[s.name]])]

\* The user runs the next cell.
RunDatasetCell ==
    /\ du # <<>>
    /\ du.stmt = 0
    /\ du.cell < Len(DatasetCells)
    /\ du' = [du EXCEPT !.cell = du.cell + 1, !.stmt = 1]
    /\ UNCHANGED others_du

\* with rio.open(nairobi_elevation_file) as src:
DatasetWithOpen ==
    /\ AtDatasetStmt("with_open")
    /\ du' = IF DatasetStmt.path \in du.disk
             THEN NextStmt([du EXCEPT !.state[DatasetStmt.name] = "open"])
             ELSE RaiseInCell(du, MissingError(DatasetStmt.lib))
    /\ UNCHANGED others_du

\* with rio.open(output_filename, 'w', **metadata) as dst:
DatasetWithCreate ==
    /\ AtDatasetStmt("with_create")
    /\ du' = IF RasterStore \in du.disk
             THEN NextStmt([du EXCEPT !.state[DatasetStmt.name] = "open",
                                      !.disk = @ \cup {DatasetStmt.path}])
             ELSE RaiseInCell(du, MissingError(DatasetStmt.lib))
    /\ UNCHANGED others_du

\* src.read(1), src.bounds, src.crs, src.meta.copy(), plotting_extent(src, ...),
\* dst.write(...): a name that was never bound raises NameError; a closed
\* dataset gives what it kept and raises for the rest.
DatasetAccess ==
    /\ AtDatasetStmt("access")
    /\ LET s == DatasetStmt
       IN  du' = CASE du.state[s.name] = "unbound" -> RaiseInCell(du, NameError)
                   [] du.state[s.name] = "closed" /\ ~KeptWhenClosed(s.lib) ->
                         RaiseInCell(Accessed(du, s), ClosedError)
                   [] OTHER -> NextStmt(Accessed(du, s))
    /\ UNCHANGED others_du

\* nairobi_elevation_data, nairobi_transform = rio_mask(src, nairobi_gdf.geometry, ...)
DatasetRioMask ==
    /\ AtDatasetStmt("rio_mask")
    /\ du' = IF du.overlaps
             THEN NextStmt(Accessed(du, DatasetStmt))
             ELSE RaiseInCell(Accessed(du, DatasetStmt), ValueError)
    /\ UNCHANGED others_du

\* The end of a with block: the dataset is closed.
DatasetWithExit ==
    /\ AtDatasetStmt("with_exit")
    /\ du' = NextStmt([du EXCEPT !.state[DatasetStmt.name] = "closed"])
    /\ UNCHANGED others_du

\* ax.imshow(...), ctx.add_basemap(...), plt.imshow(...): the dataset is not
\* among the arguments once its attribute was taken.
DatasetCall ==
    /\ AtDatasetStmt("call")
    /\ du' = NextStmt(du)
    /\ UNCHANGED others_du

CellDatasets ==
    \/ RunDatasetCell
    \/ DatasetWithOpen
    \/ DatasetWithCreate
    \/ DatasetAccess
    \/ DatasetRioMask
    \/ DatasetWithExit
    \/ DatasetCall
(***************************************************************************)
(* The presenters: frame.plot, ctx.add_basemap, leafmap's Map.add_gdf and  *)
(* Map.add_raster, in the cells of 07-Contextily-Leafmap and in the plot   *)
(* cells of 04-GeoPandas.  A frame here has columns besides its            *)
(* geometries: [index, geoms, crs, columns], the columns a sequence of     *)
(* [name, values].  A cell that converts a frame and then presents it is   *)
(* run statement by statement.                                             *)
(***************************************************************************)

\* The geometries of the frames that are presented, in EPSG:4326.
MapGeoms == {RectRing(0, 0, 1, 1), RectRing(1, 1, 3, 2)}

Column(name, values) == [name |-> name, values |-> values]

\* The frame of the rows given: each row a geometry (in EPSG:4326) and the
\* values of columns a and b; the file declares crs.
FrameOfRows(rows, crs, a, b) ==
    [index |-> [i \in 1..Len(rows) |-> i - 1],
     geoms |-> [i \in 1..Len(rows) |-> TransformGeom(4326, crs, rows[i].geom)],
     crs |-> crs,
     columns |-> <<Column(a, [i \in 1..Len(rows) |-> rows[i].a]),
                   Column(b, [i \in 1..Len(rows) |-> rows[i].b])>>]

\* The frames a file of districts may hold.
DistrictFrames ==
    {FrameOfRows(rows, crs, "population", "district_name") :
        rows \in SeqsUpTo([geom : MapGeoms, a : 0..MaxData, b : {"d"}], MaxMapRows) \ {<<>>},
        crs \in CRSs}

\* The frames the file of countries may hold.
CountryFrames ==
    {FrameOfRows(rows, 4326, "gdp_md_est", "continent") :
        rows \in [1..2 -> [geom : {RectRing(0, 0, 1, 1)}, a : {1}, b : {"Africa", "Europe"}]]}

\* The frames the file of bike stations may hold: points.
StationFrames ==
    {FrameOfRows(<<[geom |-> <<1, 1>>, a |-> 1, b |-> "s"]>>, crs, "available_bikes", "name") :
        crs \in CRSs}

\* The frames the file paris_districts_utm.geojson may hold, as the leafmap
\* cell reads it: one district.
UtmFrames ==
    {FrameOfRows(<<[geom |-> RectRing(0, 0, 1, 1), a |-> 1, b |-> "d"]>>, crs,
                 "population", "district_name") : crs \in CRSs}

NoMapFrame == [index |-> <<>>, geoms |-> <<>>, crs |-> 0, columns |-> <<>>]

HasColumn(frame, name) == \E i \in 1..Len(frame.columns) : frame.columns[i].name = name

\* frame[name]
ColumnValues(frame, name) ==
    frame.columns[CHOOSE i \in 1..Len(frame.columns) : frame.columns[i].name = name].values

\* frame[name] = values: an existing column is replaced where it stands, a
\* new one is added after the last.
AssignColumn(frame, name, values) ==
    IF HasColumn(frame, name)
    THEN [frame EXCEPT !.columns =
             [i \in 1..Len(frame.columns) |->
                 IF frame.columns[i].name = name THEN Column(name, values)
                 ELSE frame.columns[i]]]
    ELSE [frame EXCEPT !.columns = Append(@, Column(name, values))]

\* The positions of the rows whose column name holds value.
RECURSIVE RowsWhere(_, _, _, _)
RowsWhere(frame, name, value, i) ==
    IF i > Len(frame.geoms) THEN <<>>
    ELSE (IF ColumnValues(frame, name)[i] = value THEN <<i>> ELSE <<>>)
         \o RowsWhere(frame, name, value, i + 1)

\* frame[frame[name] == value]: a new frame of the rows that match, with
\* their labels.
Filter(frame, name, value) ==
    LET keep == RowsWhere(frame, name, value, 1)
    IN  [index |-> [k \in 1..Len(keep) |-> frame.index[keep[k]]],
         geoms |-> [k \in 1..Len(keep) |-> frame.geoms[keep[k]]],
         crs |-> frame.crs,
         columns |-> [c \in 1..Len(frame.columns) |->
                        Column(frame.columns[c].name,
                               [k \in 1..Len(keep) |-> frame.columns[c].values[keep[k]]])]]

\* frame.to_crs(epsg=crs) of a frame with columns: a new frame, the columns
\* as they are.
ToCrsColumns(frame, crs) ==
    [index |-> frame.index,
     geoms |-> ToCrs(frame, crs).geoms,
     crs |-> ToCrs(frame, crs).crs,
     columns |-> frame.columns]

\* Twice the shoelace sum of a ring.
RECURSIVE Shoelace(_, _)
Shoelace(ring, i) ==
    IF i > NumEdges(ring) THEN 0
    ELSE ring[i][1] * ring[i + 1][2] - ring[i + 1][1] * ring[i][2] + Shoelace(ring, i + 1)

\* geometry.area
Area(g) ==
    IF IsPoint(g) THEN 0
    ELSE (IF Shoelace(g, 1) >= 0 THEN Shoelace(g, 1) ELSE -Shoelace(g, 1)) \div 2

\* Twice the centroid of a rectangle or of a point.
Centroid2(g) ==
    IF IsPoint(g) THEN <<2 * g[1], 2 * g[2]>>
    ELSE <<g[1][1] + g[3][1], g[1][2] + g[3][2]>>

\* districts['population'] / districts.geometry.area * 10**6, as fractions.
PopulationDensity(frame) ==
    [i \in 1..Len(frame.geoms) |->
        [num |-> ColumnValues(frame, "population")[i] * 1000000,
         den |-> Area(frame.geoms[i])]]

NoBasemap == [crs |-> 0, given |-> FALSE, shown |-> FALSE]
NoAxes == [data_crs |-> 0, artists |-> <<>>, colors |-> <<>>, basemap |-> NoBasemap]
NoMap == [center |-> <<0, 0>>, layers |-> <<>>]

\* A plot that relabels the rows of the frame it is given, last first, and
\* drops its CRS.
PlotReversing(frame, column) ==
    [out |-> [data_crs |-> frame.crs, artists |-> frame.geoms, colors |-> <<>>,
              basemap |-> NoBasemap],
     frame |-> [frame EXCEPT !.index = [i \in 1..Len(frame.index) |->
                                           frame.index[Len(frame.index) + 1 - i]],
                             !.crs = 0]]

\* frame.plot(column=column): the axes drawn, with the geometries in the
\* coordinates the frame has them in, coloured by the column if one is
\* named; and the frame after the call.
Plot(frame, column) ==
    [out |-> [data_crs |-> frame.crs,
              artists |-> frame.geoms,
              colors |-> IF column = "" THEN <<>> ELSE ColumnValues(frame, column),
              basemap |-> NoBasemap],
     frame |-> frame]

\* ctx.add_basemap(ax, crs=crs): the tiles are drawn in crs, or in
\* EPSG:3857, the CRS of the tiles, when none is given (crs = 0).
AddBasemap(ax, crs) ==
    [ax EXCEPT !.basemap = [crs |-> IF crs = 0 THEN 3857 ELSE crs,
                            given |-> crs # 0,
                            shown |-> TRUE]]

\* m.add_gdf(frame, layer_name=name): a layer of the frame's GeoJSON, which
\* leafmap makes of frame.to_crs(4326); and the frame after the call.
AddGdf(m, frame, name) ==
    [out |-> [m EXCEPT !.layers =
                 Append(@, [kind |-> "gdf", name |-> name, source_crs |-> frame.crs,
                            shape |-> <<0, 0>>,
                            geojson |-> ToCrsColumns(frame, 4326).geoms])],
     frame |-> frame]

\* m.add_raster(raster_file): a layer of the tiles of the file; and the file
\* after the call.
AddRaster(m, file) ==
    [out |-> [m EXCEPT !.layers =
                 Append(@, [kind |-> "raster", name |-> "Raster", source_crs |-> 0,
                            shape |-> <<file.height, file.width>>,
                            geojson |-> <<>>])],
     frame |-> file]

\* leafmap.Map(center=center)
Map(center) == [center |-> center, layers |-> <<>>]

\* The names bound in a session, none bound yet.
NoMaps ==
    [quartier_file |-> NoMapFrame, districts_file |-> NoMapFrame,
     gdf |-> NoMapFrame, center |-> <<0, 0>>, m |-> NoMap, ax |-> NoAxes,
     kenya_file |-> NoRasterFile, raster_data |-> NoRasterFile,
     gdf_paris_districts |-> NoMapFrame, gdf_countries |-> NoMapFrame,
     stations |-> NoMapFrame, districts |-> NoMapFrame]

\* The session of 07-Contextily-Leafmap after its import cells; the file
\* quartier_paris.geojson holds q.
StartLeafmap(q) ==
    /\ mp = [NoMaps EXCEPT !.quartier_file = q]
    /\ mp_cell = "start_07"

\* The session of 04-GeoPandas after the cells that read the districts d
\* and the countries c.
StartGeoPandasPlots(d, c) ==
    /\ mp = [NoMaps EXCEPT !.districts_file = d, !.gdf_paris_districts = d,
                           !.gdf_countries = c]
    /\ mp_cell = "start_04"

\* No session of the presenters.
OffMaps ==
    /\ mp = <<>>
    /\ mp_cell = "off"

\* ax = mp[name].plot(column=column), as the step from cell `from` to `to`.
PlotStep(from, to, name, column) ==
    /\ mp_cell = from
    /\ LET shown == Plot(mp[name], column)
       IN  mp' = [mp EXCEPT ![name] = shown.frame, !.ax = shown.out]
    /\ mp_cell' = to
    /\ UNCHANGED others_mp

\* gdf = gpd.read_file("./data/vector/quartier_paris.geojson")
ReadQuartierStmt ==
    /\ mp_cell \in {"start_07", "a_basemap_custom"}
    /\ mp' = [mp EXCEPT !.gdf = mp.quartier_file]
    /\ mp_cell' = IF mp_cell = "start_07" THEN "a_read" ELSE "a_read_again"
    /\ UNCHANGED others_mp

\* gdf = gdf.to_crs(epsg=3857)
ToCrsMercatorStmt ==
    /\ mp_cell = "a_read"
    /\ mp' = [mp EXCEPT !.gdf = ToCrsColumns(mp.gdf, 3857)]
    /\ mp_cell' = "a_to_crs"
    /\ UNCHANGED others_mp

\* ax = gdf.plot(figsize=(13, 10), alpha=.66, edgecolor='k')
PlotGdfStmt == PlotStep("a_to_crs", "a_plot", "gdf", "")

\* ctx.add_basemap(ax, crs=gdf.crs, source=ctx.providers.Stamen.TonerLite)
AddBasemapCrsStmt ==
    /\ mp_cell = "a_plot"
    /\ mp' = [mp EXCEPT !.ax = AddBasemap(mp.ax, mp.gdf.crs)]
    /\ mp_cell' = "a_basemap"
    /\ UNCHANGED others_mp

\* ax = gdf.plot(figsize=(10, 10), alpha=0.5, edgecolor='k')
PlotGdfCustomStmt == PlotStep("a_basemap", "a_plot_custom", "gdf", "")

\* ctx.add_basemap(ax, source="http://...")
AddBasemapCustomStmt ==
    /\ mp_cell = "a_plot_custom"
    /\ mp' = [mp EXCEPT !.ax = AddBasemap(mp.ax, 0)]
    /\ mp_cell' = "a_basemap_custom"
    /\ UNCHANGED others_mp

\* gdf = gdf.to_crs(epsg=4326)
ToCrsWgs84Stmt ==
    /\ mp_cell \in {"a_read_again", "a_read_utm"}
    /\ mp' = [mp EXCEPT !.gdf = ToCrsColumns(mp.gdf, 4326)]
    /\ mp_cell' = IF mp_cell = "a_read_again" THEN "a_to_crs_wgs84" ELSE "a_to_crs_wgs84_utm"
    /\ UNCHANGED others_mp

\* center = gdf.centroid.sample(1).iloc[0]
\* m = leafmap.Map(center=[center.x, center.y], zoom=13)
MapStmt ==
    /\ mp_cell \in {"a_to_crs_wgs84", "a_add_gdf"}
    /\ \E i \in 1..Len(mp.gdf.geoms) :
          LET center == Centroid2(mp.gdf.geoms[i])
          IN  mp' = [mp EXCEPT !.center = center, !.m = Map(<<center[1], center[2]>>)]
    /\ mp_cell' = IF mp_cell = "a_to_crs_wgs84" THEN "a_map" ELSE "a_map_again"
    /\ UNCHANGED others_mp

\* m.add_gdf(gdf, layer_name="My Layer"); m.add_gdf(gdf, layer_name="Layer", style=style)
AddGdfStmt ==
    /\ mp_cell \in {"a_map", "a_to_crs_wgs84_utm"}
    /\ LET shown == AddGdf(mp.m, mp.gdf, IF mp_cell = "a_map" THEN "My Layer" ELSE "Layer")
       IN  mp' = [mp EXCEPT !.gdf = shown.frame, !.m = shown.out]
    /\ mp_cell' = IF mp_cell = "a_map" THEN "a_add_gdf" ELSE "a_add_gdf_styled"
    /\ UNCHANGED others_mp

\* gdf = gpd.read_file("./data/vector/paris_districts_utm.geojson")
ReadDistrictsUtmStmt ==
    /\ mp_cell = "a_map_again"
    /\ \E d \in UtmFrames : mp' = [mp EXCEPT !.districts_file = d, !.gdf = d]
    /\ mp_cell' = "a_read_utm"
    /\ UNCHANGED others_mp

\* with rio.open(raster_file) as src: raster_data = src.read() ...
OpenKenyaCell ==
    /\ mp_cell = "a_add_gdf_styled"
    /\ \E f \in RasterFiles : mp' = [mp EXCEPT !.kenya_file = f, !.raster_data = f]
    /\ mp_cell' = "a_open_kenya"
    /\ UNCHANGED others_mp

\* m = leafmap.Map(center=((ymin+ymax)/2, (xmin+xmax)/2), zoom=8)
MapKenyaCell ==
    /\ mp_cell = "a_open_kenya"
    /\ mp' = [mp EXCEPT !.m = Map(<<mp.kenya_file.height * PixelSize,
                                    mp.kenya_file.width * PixelSize>>)]
    /\ mp_cell' = "a_map_kenya"
    /\ UNCHANGED others_mp

\* m.add_raster(raster_file, opacity=.75)
AddRasterCell ==
    /\ mp_cell = "a_map_kenya"
    /\ LET shown == AddRaster(mp.m, mp.kenya_file)
       IN  mp' = [mp EXCEPT !.kenya_file = shown.frame, !.m = shown.out]
    /\ mp_cell' = "a_add_raster"
    /\ UNCHANGED others_mp

\* gdf_paris_districts.plot(figsize=(10, 10), column="population")
PlotDistrictsCell == PlotStep("start_04", "b_plot_districts", "gdf_paris_districts", "population")

\* gdf_countries.plot(figsize=(10, 6))
PlotCountriesCell == PlotStep("b_plot_districts", "b_plot_countries", "gdf_countries", "")

\* ax = gdf_countries[gdf_countries["continent"] == "Africa"].plot(column="gdp_md_est", legend=True)
PlotAfricaCell ==
    /\ mp_cell = "b_plot_countries"
    /\ mp' = [mp EXCEPT !.ax = Plot(Filter(mp.gdf_countries, "continent", "Africa"),
                                    "gdp_md_est").out]
    /\ mp_cell' = "b_plot_africa"
    /\ UNCHANGED others_mp

\* stations = gpd.read_file("./data/vector/paris_bike_stations_mercator.gpkg")
ReadStationsCell ==
    /\ mp_cell = "b_plot_africa"
    /\ \E s \in StationFrames : mp' = [mp EXCEPT !.stations = s]
    /\ mp_cell' = "b_read_stations"
    /\ UNCHANGED others_mp

\* _ = stations.plot(figsize=(10, 5))
PlotStationsCell == PlotStep("b_read_stations", "b_plot_stations", "stations", "")

\* ax = stations.plot(figsize=(12, 6), markersize=5)
PlotStationsAxStmt == PlotStep("b_plot_stations", "b_plot_stations_ax", "stations", "")

\* ctx.add_basemap(ax)
AddBasemapStationsStmt ==
    /\ mp_cell = "b_plot_stations_ax"
    /\ mp' = [mp EXCEPT !.ax = AddBasemap(mp.ax, 0)]
    /\ mp_cell' = "b_basemap_stations"
    /\ UNCHANGED others_mp

\* districts = gpd.read_file("./data/vector/paris_districts_utm.geojson")
ReadDistrictsAgainCell ==
    /\ mp_cell = "b_basemap_stations"
    /\ mp' = [mp EXCEPT !.districts = mp.districts_file]
    /\ mp_cell' = "b_read_districts"
    /\ UNCHANGED others_mp

\* districts['population_density'] = districts['population'] / districts.geometry.area * 10**6
DensityStmt ==
    /\ mp_cell = "b_read_districts"
    /\ mp' = [mp EXCEPT !.districts =
                 AssignColumn(mp.districts, "population_density", PopulationDensity(mp.districts))]
    /\ mp_cell' = "b_density"
    /\ UNCHANGED others_mp

\* _ = districts.plot(column='population_density', figsize=(8, 6), legend=True)
PlotDensityStmt == PlotStep("b_density", "b_plot_density", "districts", "population_density")

\* _ = districts.plot(column="population", figsize=(12, 6), legend=True)
PlotPopulationCell == PlotStep("b_plot_density", "b_plot_population", "districts", "population")

CellLeafmap ==
    \/ ReadQuartierStmt
    \/ ToCrsMercatorStmt
    \/ PlotGdfStmt
    \/ AddBasemapCrsStmt
    \/ PlotGdfCustomStmt
    \/ AddBasemapCustomStmt
    \/ ToCrsWgs84Stmt
    \/ MapStmt
    \/ AddGdfStmt
    \/ ReadDistrictsUtmStmt
    \/ OpenKenyaCell
    \/ MapKenyaCell
    \/ AddRasterCell

CellGeoPandasPlots ==
    \/ PlotDistrictsCell
    \/ PlotCountriesCell
    \/ PlotAfricaCell
    \/ ReadStationsCell
    \/ PlotStationsCell
    \/ PlotStationsAxStmt
    \/ AddBasemapStationsStmt
    \/ ReadDistrictsAgainCell
    \/ DensityStmt
    \/ PlotDensityStmt
    \/ PlotPopulationCell

(***************************************************************************)
(* Columns: the column names of the frames of 01-Pandas (the time series)  *)
(* and of 04-GeoPandas (the districts), under the cells that assign        *)
(* columns and join frames.  A column is its name and the expression its   *)
(* values come from.                                                       *)
(***************************************************************************)
Col(name, from) == [name |-> name, from |-> from]

ColNames(cols) == {cols[i].name : i \in 1..Len(cols)}

\* The sequences over S of at most n elements, none of them twice: the
\* readers hand out no two columns of the same name.
NoRepeatSeqs(S, n) ==
    {s \in SeqsUpTo(S, n) : \A i, j \in 1..Len(s) : s[i] = s[j] => i = j}

FileCols(names) == [i \in 1..Len(names) |-> Col(names[i], "file")]

\* The columns NO2_ts.csv may hold: the station BASCH that the cell reads,
\* and possibly the names the cell assigns.
TsFiles ==
    {FileCols(s) : s \in {t \in NoRepeatSeqs({"BASCH", "weekday", "weekend"}, MaxCols) :
                             \E i \in 1..Len(t) : t[i] = "BASCH"}}

\* The columns paris_districts_utm.geojson may hold, the geometry last.
DistrictFiles ==
    {Append(FileCols(s), Col("geometry", "file")) :
        s \in NoRepeatSeqs({"district_name", "population", "name", "area"}, MaxCols)}

\* frame[name] = values: the column of that name is replaced where it is,
\* a new name is appended.
SetItem(cols, name, from) ==
    IF name \in ColNames(cols)
    THEN [i \in 1..Len(cols) |-> IF cols[i].name = name THEN Col(name, from) ELSE cols[i]]
    ELSE Append(cols, Col(name, from))

\* The columns without the geometry column.
Attributes(cols) == SelectSeq(cols, LAMBDA c : c.name # "geometry")

\* The names two frames share, the geometry apart.
Shared(left, right) == ColNames(Attributes(left)) \cap ColNames(Attributes(right))

Renamed(cols, names, suffix) ==
    [i \in 1..Len(cols) |->
        IF cols[i].name \in names THEN Col(cols[i].name \o suffix, cols[i].from) ELSE cols[i]]

\* A join that puts the columns of the two frames side by side as they are.
SJoinColumnsNoSuffix(left, right) ==
    left \o <<Col("index_right", "index")>> \o Attributes(right)

\* gpd.sjoin(left, right): the columns of left, index_right, the columns of
\* right without its geometry; a name the two share gets lsuffix="left" and
\* rsuffix="right".
SJoinColumns(left, right) ==
    Renamed(left, Shared(left, right), "_left")
        \o <<Col("index_right", "index")>>
        \o Renamed(Attributes(right), Shared(left, right), "_right")

\* gpd.overlay(df1, df2): the columns of both without their geometries, a
\* shared name with the suffixes _1 and _2, and the geometry of the result.
OverlayColumns(df1, df2) ==
    Renamed(Attributes(df1), Shared(df1, df2), "_1")
        \o Renamed(Attributes(df2), Shared(df1, df2), "_2")
        \o <<Col("geometry", "overlay")>>

\* The frames of the two sessions before they are bound.
NoColumns ==
    [ts_file |-> <<>>, ts |-> <<>>, districts_file |-> <<>>, gdf_paris_districts |-> <<>>,
     gdf_buffer |-> <<>>, intersecting_districts |-> <<>>, union |-> <<>>,
     gdf_points |-> <<>>, point_in_polygon |-> <<>>]

StartTsColumns(file) ==
    /\ cl = [NoColumns EXCEPT !.ts_file = file]
    /\ cl_cell = "t_start"

StartDistrictColumns(file) ==
    /\ cl = [NoColumns EXCEPT !.districts_file = file]
    /\ cl_cell = "d_start"

OffColumns ==
    /\ cl = NoColumns
    /\ cl_cell = "off"

\* ts = pd.read_csv("./data/tabular/NO2_ts.csv", ..., index_col=0, parse_dates=True)
ReadTsCell ==
    /\ cl_cell = "t_start"
    /\ cl' = [cl EXCEPT !.ts = cl.ts_file]
    /\ cl_cell' = "t_read"
    /\ UNCHANGED others_cl

\* ts["weekday"] = ts.index.weekday
\* ts["weekend"] = ts["weekday"].isin([5, 6])
WeekdayWeekendCell ==
    /\ cl_cell = "t_read"
    /\ cl' = [cl EXCEPT !.ts = SetItem(SetItem(cl.ts, "weekday", "ts.index.weekday"),
                                       "weekend", "ts[weekday].isin([5, 6])")]
    /\ cl_cell' = "t_weekend"
    /\ UNCHANGED others_cl

\* gdf_paris_districts = gpd.read_file("./data/vector/paris_districts_utm.geojson")
ReadDistrictColumnsCell ==
    /\ cl_cell = "d_start"
    /\ cl' = [cl EXCEPT !.gdf_paris_districts = cl.districts_file]
    /\ cl_cell' = "d_read"
    /\ UNCHANGED others_cl

\* gdf_paris_districts["area"] = gdf_paris_districts.area
AreaCell ==
    /\ cl_cell = "d_read"
    /\ cl' = [cl EXCEPT !.gdf_paris_districts =
                 SetItem(cl.gdf_paris_districts, "area", "gdf_paris_districts.area")]
    /\ cl_cell' = "d_area"
    /\ UNCHANGED others_cl

\* gdf_buffer = gpd.GeoDataFrame(geometry=[buffered_first_district], crs=...)
BufferColumnsCell ==
    /\ cl_cell = "d_area"
    /\ cl' = [cl EXCEPT !.gdf_buffer = <<Col("geometry", "buffered_first_district")>>]
    /\ cl_cell' = "d_buffer"
    /\ UNCHANGED others_cl

\* intersecting_districts = gpd.sjoin(gdf_paris_districts.iloc[1:], gdf_buffer, ...)
SJoinBufferColumnsCell ==
    /\ cl_cell = "d_buffer"
    /\ cl' = [cl EXCEPT !.intersecting_districts =
                 SJoinColumns(cl.gdf_paris_districts, cl.gdf_buffer)]
    /\ cl_cell' = "d_sjoin_intersects"
    /\ UNCHANGED others_cl

\* union = gpd.overlay(intersecting_districts, gdf_buffer, how='union')
OverlayColumnsCell ==
    /\ cl_cell = "d_sjoin_intersects"
    /\ cl' = [cl EXCEPT !.union = OverlayColumns(cl.intersecting_districts, cl.gdf_buffer)]
    /\ cl_cell' = "d_overlay"
    /\ UNCHANGED others_cl

\* gdf_points = gpd.GeoDataFrame(point_data, crs="EPSG:4326")
\* gdf_points = gdf_points.to_crs(gdf_paris_districts.crs)
\* point_in_polygon = gpd.sjoin(gdf_points, gdf_paris_districts, predicate="within")
SJoinPointsColumnsCell ==
    /\ cl_cell = "d_overlay"
    /\ LET made == <<Col("name", "point_data"), Col("geometry", "point_data")>>
       IN  cl' = [cl EXCEPT !.gdf_points = made,
                            !.point_in_polygon = SJoinColumns(made, cl.gdf_paris_districts)]
    /\ cl_cell' = "d_sjoin_within"
    /\ UNCHANGED others_cl

CellColumns ==
    \/ ReadTsCell
    \/ WeekdayWeekendCell
    \/ ReadDistrictColumnsCell
    \/ AreaCell
    \/ BufferColumnsCell
    \/ SJoinBufferColumnsCell
    \/ OverlayColumnsCell
    \/ SJoinPointsColumnsCell
(***************************************************************************)
(* The specifications.  A notebook's session starts with nothing bound and *)
(* then runs its cells; the other notebooks' sessions are not started.     *)
(***************************************************************************)
InitPandas ==
    /\ \E f \in Frames : StartPandas(f)
    /\ OffShapely /\ OffGeoPandas /\ OffRasterio /\ OffXArray /\ OffKernel /\ OffMaps /\ OffColumns /\ OffDatasets /\ OffProximity /\ OffCopy /\ OffTransform
    /\ raster_file = NoRasterFile

NextPandas == CellPandas

SpecPandas == InitPandas /\ [][NextPandas]_vars

\* The sum cells of 01-Pandas on any frame with the columns key and data.
InitSums ==
    /\ \E f \in Frames : StartSums(f)
    /\ OffShapely /\ OffGeoPandas /\ OffRasterio /\ OffXArray /\ OffKernel /\ OffMaps /\ OffColumns /\ OffDatasets /\ OffProximity /\ OffCopy /\ OffTransform
    /\ raster_file = NoRasterFile

NextSums == CellSums

SpecSums == InitSums /\ [][NextSums]_vars

InitShapely ==
    /\ \E z \in RectRings, s \in Grid \X Grid : StartShapely(z, s)
    /\ OffPandas /\ OffGeoPandas /\ OffRasterio /\ OffXArray /\ OffKernel /\ OffMaps /\ OffColumns /\ OffDatasets /\ OffProximity /\ OffCopy /\ OffTransform
    /\ raster_file = NoRasterFile

NextShapely == CellShapely

SpecShapely == InitShapely /\ [][NextShapely]_vars

InitGeoPandas ==
    /\ StartGeoPandas
    /\ OffPandas /\ OffShapely /\ OffRasterio /\ OffXArray /\ OffKernel /\ OffMaps /\ OffColumns /\ OffDatasets /\ OffProximity /\ OffCopy /\ OffTransform
    /\ raster_file = NoRasterFile

InitRasterio ==
    /\ \E f \in RasterFiles : StartRasterio(f)
    /\ OffPandas /\ OffShapely /\ OffGeoPandas /\ OffXArray /\ OffKernel /\ OffMaps /\ OffColumns /\ OffDatasets /\ OffProximity /\ OffCopy /\ OffTransform

InitXArray ==
    /\ \E f \in RasterFiles : StartXArray(f)
    /\ OffPandas /\ OffShapely /\ OffGeoPandas /\ OffRasterio /\ OffKernel /\ OffMaps /\ OffColumns /\ OffDatasets /\ OffProximity /\ OffCopy /\ OffTransform

\* A session of 04-GeoPandas.
SpecGeoPandas == InitGeoPandas /\ [][CellGeoPandas]_vars

\* A session of 01-Pandas or of 04-GeoPandas: the notebooks that filter,
\* aggregate and reproject frames.
InitFrames == InitPandas \/ InitGeoPandas

NextFrames == CellPandas \/ CellGeoPandas

SpecFrames == InitFrames /\ [][NextFrames]_vars

\* A session of 04-GeoPandas or of 06-XArray: the notebooks that reproject.
InitCrs == InitGeoPandas \/ InitXArray

NextCrs == CellGeoPandas \/ CellXArray

SpecCrs == InitCrs /\ [][NextCrs]_vars

\* A session of the raster cells or of 06-XArray: the notebooks that crop.
InitRaster == InitRasterio \/ InitXArray

NextRaster == CellRasterio \/ CellXArray

SpecRaster == InitRaster /\ [][NextRaster]_vars

\* A session of the kernel on one of the notebooks.
InitKernel ==
    /\ \E nb \in Notebooks, d \in Disks, overlaps \in BOOLEAN : StartKernel(nb, d, overlaps)
    /\ OffPandas /\ OffShapely /\ OffGeoPandas /\ OffRasterio /\ OffXArray /\ OffMaps /\ OffColumns /\ OffDatasets /\ OffProximity /\ OffCopy /\ OffTransform
    /\ raster_file = NoRasterFile

SpecKernel == InitKernel /\ [][CellKernel]_vars

\* A session of 07-Contextily-Leafmap, or of the plot cells of 04-GeoPandas.
InitMaps ==
    /\ \/ \E q \in DistrictFrames : StartLeafmap(q)
       \/ \E d \in DistrictFrames, c \in CountryFrames : StartGeoPandasPlots(d, c)
    /\ OffPandas /\ OffShapely /\ OffGeoPandas /\ OffRasterio /\ OffXArray /\ OffKernel /\ OffColumns /\ OffDatasets /\ OffProximity /\ OffCopy /\ OffTransform
    /\ raster_file = NoRasterFile

NextMaps == CellLeafmap \/ CellGeoPandasPlots

SpecMaps == InitMaps /\ [][NextMaps]_vars

\* A session of the time-series cells of 01-Pandas, or of the cells of
\* 04-GeoPandas that assign columns and join frames.
InitColumns ==
    /\ \/ \E file \in TsFiles : StartTsColumns(file)
       \/ \E file \in DistrictFiles : StartDistrictColumns(file)
    /\ OffPandas /\ OffShapely /\ OffGeoPandas /\ OffRasterio /\ OffXArray /\ OffKernel
          /\ OffMaps /\ OffTransform /\ OffCopy /\ OffProximity /\ OffDatasets
    /\ raster_file = NoRasterFile

NextColumns == CellColumns

SpecColumns == InitColumns /\ [][NextColumns]_vars

\* A session of the transform cells of Rasterio.
InitTransform ==
    /\ \E f \in RasterFiles, t \in Geotransforms : StartTransform(f, t)
    /\ OffPandas /\ OffShapely /\ OffGeoPandas /\ OffRasterio /\ OffXArray /\ OffKernel
          /\ OffMaps /\ OffColumns /\ OffDatasets /\ OffProximity /\ OffCopy

SpecTransform == InitTransform /\ [][CellTransform]_vars

\* A session of the cell of Rasterio that copies a raster.
InitCopy ==
    /\ \E f \in SourceFiles, dir_exists \in BOOLEAN : StartCopy(f, dir_exists)
    /\ OffPandas /\ OffShapely /\ OffGeoPandas /\ OffRasterio /\ OffXArray /\ OffKernel
          /\ OffMaps /\ OffColumns /\ OffDatasets /\ OffProximity /\ OffTransform

SpecCopy == InitCopy /\ [][CellCopy]_vars

\* A session of the proximity example of 03-Shapely.
InitProximity ==
    /\ \E p1 \in ParkPoints, p2 \in ParkPoints : StartProximity(p1, p2)
    /\ OffPandas /\ OffShapely /\ OffGeoPandas /\ OffRasterio /\ OffXArray /\ OffKernel
          /\ OffMaps /\ OffColumns /\ OffDatasets /\ OffTransform /\ OffCopy
    /\ raster_file = NoRasterFile

SpecProximity == InitProximity /\ [][CellProximity]_vars

\* A session of the cells of Rasterio that use a dataset.
InitDatasets ==
    /\ \E disk \in SUBSET {RasterStore, NairobiTiff}, overlaps \in BOOLEAN :
          (NairobiTiff \in disk => RasterStore \in disk) /\ StartDatasets(disk, overlaps)
    /\ OffPandas /\ OffShapely /\ OffGeoPandas /\ OffRasterio /\ OffXArray /\ OffKernel
          /\ OffMaps /\ OffColumns /\ OffTransform /\ OffCopy /\ OffProximity
    /\ raster_file = NoRasterFile

SpecDatasets == InitDatasets /\ [][CellDatasets]_vars
(***************************************************************************)
(* C1: group-by on a key column followed by mean (or sum) returns exactly  *)
(* one row per distinct key value present in the frame, no row for a value *)
(* that is absent, in ascending key order (not in order of first           *)
(* appearance).                                                            *)
(***************************************************************************)
KeyPresent(f, k) == \E i \in 1..Len(f) : f[i].key = k

GroupByOneRowPerKeySorted ==
    pd_cell \in {"mean", "sum"} =>
        /\ \A k \in Keys :
              Cardinality({j \in 1..Len(grouped) : grouped[j].key = k})
                  = IF KeyPresent(df, k) THEN 1 ELSE 0
        /\ \A j \in 1..Len(grouped) : grouped[j].key \in Keys
        /\ \A i, j \in 1..Len(grouped) :
              i < j => KeyOrd(grouped[i].key) < KeyOrd(grouped[j].key)

\* A frame whose keys first appear in descending order has been grouped by
\* mean, and the result lists them ascending.
GroupByWitness ==
    /\ pd_cell = "mean"
    /\ Len(df) = 3
    /\ df[1].key = "C" /\ df[2].key = "A" /\ df[3].key = "C"
    /\ Len(grouped) = 2
    /\ grouped[1].key = "A" /\ grouped[2].key = "C"

(***************************************************************************)
(* C2: for every axis-aligned rectangle and every point of the grid,       *)
(* point.within(polygon) is true when the point lies strictly inside the   *)
(* rectangle and false when it lies outside it; school1 and school2 are    *)
(* within zone1 only, and school3 is within neither zone.                  *)
(***************************************************************************)
StrictlyInside(p, ring) ==
    /\ ring[1][1] < p[1] /\ p[1] < ring[3][1]
    /\ ring[1][2] < p[2] /\ p[2] < ring[3][2]

Outside(p, ring) ==
    \/ p[1] < ring[1][1] \/ p[1] > ring[3][1]
    \/ p[2] < ring[1][2] \/ p[2] > ring[3][2]

WithinRectangle ==
    /\ sh_cell = "within" =>
          /\ StrictlyInside(school, zone) => in_zone = TRUE
          /\ Outside(school, zone) => in_zone = FALSE
    /\ sh_cell = "schools_in_zones" =>
          schools_in_zones = <<TRUE, FALSE, TRUE, FALSE, FALSE, FALSE>>

\* A point strictly inside its rectangle has been tested, to the right of
\* no vertex's row only: the ray from it passes through no vertex.
WithinWitness ==
    /\ sh_cell = "within"
    /\ StrictlyInside(school, zone)
    /\ in_zone = TRUE
    /\ zone[1] = <<1, 0>> /\ zone[3] = <<3, 3>>
    /\ school = <<2, 1>>

(***************************************************************************)
(* C3: a polygon whose ring visits the corners of a rectangle in a         *)
(* self-intersecting order, such as (0,0),(2,2),(0,2),(2,0),(0,0), is      *)
(* reported invalid by is_valid, and the polygon of the same corners in    *)
(* ring order, (0,0),(0,2),(2,2),(2,0),(0,0), is reported valid.           *)
(***************************************************************************)
\* The corner lists of a rectangle that cross themselves are those that go
\* from the first corner to the opposite one second or last: the ring order
\* visits the opposite corner third.
OppositeCornerThird(ring) ==
    /\ ring[3][1] # ring[1][1]
    /\ ring[3][2] # ring[1][2]

SelfIntersectingInvalidFixedValid ==
    sh_cell \in {"is_valid", "is_valid_fixed"} =>
        /\ valid = OppositeCornerThird(polygon)
        /\ polygon = SelfIntersectingPoints => valid = FALSE
        /\ polygon = FixedPoints => valid = TRUE

\* The notebook's self-intersecting polygon has been checked.
IsValidWitness ==
    /\ sh_cell = "is_valid"
    /\ polygon = SelfIntersectingPoints
    /\ valid = FALSE

(***************************************************************************)
(* C4: sjoin(left, right, predicate=p) returns exactly one row per pair    *)
(* (l, r) of a left row and a right row whose geometries satisfy p, and no *)
(* row for a left row that satisfies p against no right geometry; a left   *)
(* row matching k right geometries appears k times.                        *)
(***************************************************************************)
\* Whether two rectangles share a point.
RectanglesMeet(a, b) ==
    /\ a[1][1] <= b[3][1] /\ b[1][1] <= a[3][1]
    /\ a[1][2] <= b[3][2] /\ b[1][2] <= a[3][2]

\* The rows of a join that pair the left label l with the right label r.
RowsOfPair(join, l, r) ==
    {k \in 1..Len(join.rows) : join.rows[k].index = l /\ join.rows[k].index_right = r}

\* The join holds one row per pair that satisfies the predicate and nothing else.
OneRowPerMatch(join, left, right, Satisfies(_, _)) ==
    /\ \A i \in 1..Len(left.geoms), j \in 1..Len(right.geoms) :
          Cardinality(RowsOfPair(join, left.index[i], right.index[j]))
              = IF Satisfies(left.geoms[i], right.geoms[j]) THEN 1 ELSE 0
    /\ \A k \in 1..Len(join.rows) :
          \E i \in 1..Len(left.geoms), j \in 1..Len(right.geoms) :
              /\ join.rows[k].index = left.index[i]
              /\ join.rows[k].index_right = right.index[j]
    /\ \A i \in 1..Len(left.geoms) :
          Cardinality({k \in 1..Len(join.rows) : join.rows[k].index = left.index[i]})
              = Cardinality({j \in 1..Len(right.geoms) :
                                Satisfies(left.geoms[i], right.geoms[j])})

SJoinOneRowPerMatchingPair ==
    /\ gp_cell = "sjoin_intersects" =>
          OneRowPerMatch(gp.intersecting_districts,
                         ILocFrom1(gp.gdf_paris_districts), gp.gdf_buffer,
                         RectanglesMeet)
    /\ gp_cell = "sjoin_within" =>
          OneRowPerMatch(gp.point_in_polygon, gp.gdf_points,
                         gp.gdf_paris_districts, StrictlyInside)

\* A point within two districts has been joined: it appears twice, once
\* with each district.
SJoinWitness ==
    /\ gp_cell = "sjoin_within"
    /\ Len(gp.gdf_points.geoms) = 1
    /\ Len(gp.point_in_polygon.rows) = 2
    /\ gp.point_in_polygon.rows[1].index = gp.point_in_polygon.rows[2].index
    /\ gp.point_in_polygon.rows[1].index_right # gp.point_in_polygon.rows[2].index_right


(***************************************************************************)
(* C5: after a reprojection the result declares exactly the target CRS:    *)
(* to_crs(epsg=3857) declares EPSG:3857, to_crs(other.crs) declares the    *)
(* other frame's CRS, and ds.rio.reproject(crs) declares crs.              *)
(***************************************************************************)
ReprojectionDeclaresTarget ==
    /\ gp_cell \in {"sjoin_within", "contains", "contains_raised", "to_crs_mercator",
                    "to_crs_countries"}
          => gp.gdf_points.crs = gp.gdf_paris_districts.crs
    /\ gp_cell \in {"to_crs_mercator", "to_crs_countries"}
          => gp.gdf_paris_districts_mercator.crs = 3857
    /\ gp_cell = "to_crs_countries"
          => gp.gdf_countries_transformed.crs = gp.gdf_paris_districts.crs
    /\ xa_cell \in {"upscale", "clip", "clip_failed", "estimate_utm", "reproject"}
          => xa.resampled_ds.crs = xa.ds.crs
    /\ xa_cell = "reproject"
          => xa.ds_utm.crs = xa.dest_crs

\* The countries, declared in another CRS than the districts, were
\* reprojected to the districts' CRS, and the districts, declared in another
\* CRS than Web Mercator, to Web Mercator.
ReprojectionWitness ==
    /\ gp_cell = "to_crs_countries"
    /\ gp.gdf_countries.crs # gp.gdf_paris_districts.crs
    /\ gp.gdf_paris_districts.crs # 3857
    /\ gp.gdf_countries_transformed.geoms # gp.gdf_countries.geoms

(***************************************************************************)
(* C7: cropping a raster to a polygon (rio_mask with crop=True, or         *)
(* rio.clip).                                                              *)
(***************************************************************************)
NumRows(g) == Cardinality(DOMAIN g.data)
NumCols(g) == IF NumRows(g) = 0 THEN 0 ELSE Cardinality(DOMAIN g.data[1])

\* The extent of a cropped grid.
Extent(g) ==
    [xmin |-> g.origin[1],
     ymin |-> g.origin[2],
     xmax |-> g.origin[1] + NumCols(g) * PixelSize,
     ymax |-> g.origin[2] + NumRows(g) * PixelSize]

\* The box b grown by d on every side.
Grown(b, d) ==
    [xmin |-> b.xmin - d, ymin |-> b.ymin - d, xmax |-> b.xmax + d, ymax |-> b.ymax + d]

Contained(e, b) ==
    e.xmin >= b.xmin /\ e.ymin >= b.ymin /\ e.xmax <= b.xmax /\ e.ymax <= b.ymax

CentreInside(g, r, c, b) ==
    LET p == Centre(g.row_off + r, g.col_off + c)
    IN  b.xmin < p[1] /\ p[1] < b.xmax /\ b.ymin < p[2] /\ p[2] < b.ymax

\* Every pixel of the grid whose centre is outside the box holds nodata.
OutsideIsNoData(g, b) ==
    \A r \in 1..NumRows(g), c \in 1..NumCols(g) :
        ~CentreInside(g, r, c, b) => g.data[r][c] = g.nodata

\* Every pixel of the grid whose centre is inside the box holds the value
\* the file has there.
InsideKeepsValue(g, b) ==
    \A r \in 1..NumRows(g), c \in 1..NumCols(g) :
        CentreInside(g, r, c, b)
            => g.data[r][c] = Value(raster_file, g.row_off + r, g.col_off + c)

\* The same for the pixels that are valid in the file; the file's no-data
\* pixels hold the nodata of the grid.
InsideKeepsValidValue(g, b) ==
    \A r \in 1..NumRows(g), c \in 1..NumCols(g) :
        CentreInside(g, r, c, b)
            => g.data[r][c] =
                  IF IsNoData(raster_file, g.row_off + r, g.col_off + c)
                  THEN g.nodata
                  ELSE Value(raster_file, g.row_off + r, g.col_off + c)

\* C7 as stated: the extent of the result is contained in the polygon's
\* bounding box, every pixel outside the polygon holds the declared no-data
\* value, and every pixel inside keeps its source value.
CropWithinBoundingBox ==
    /\ rs_cell = "crop"
          => /\ Contained(Extent(rs.nairobi_elevation), rs.nairobi_bbox)
             /\ OutsideIsNoData(rs.nairobi_elevation, rs.nairobi_bbox)
             /\ InsideKeepsValue(rs.nairobi_elevation, rs.nairobi_bbox)
    /\ xa_cell = "clip"
          => /\ Contained(Extent(xa.clipped_ds), xa.nairobi_bbox)
             /\ OutsideIsNoData(xa.clipped_ds, xa.nairobi_bbox)
             /\ InsideKeepsValue(xa.clipped_ds, xa.nairobi_bbox)

\* C7, amended: the extent of the result is made of whole pixels and is
\* contained in the polygon's bounding box grown by less than one pixel on
\* every side; every pixel whose centre is outside the polygon holds the
\* declared no-data value; every pixel whose centre is inside keeps its
\* source value, but that rio_mask gives the file's own no-data pixels the
\* declared no-data value.
CropWithinBoundingBoxGrownByAPixel ==
    /\ rs_cell = "crop"
          => /\ Contained(Extent(rs.nairobi_elevation),
                          Grown(rs.nairobi_bbox, PixelSize - 1))
             /\ OutsideIsNoData(rs.nairobi_elevation, rs.nairobi_bbox)
             /\ InsideKeepsValidValue(rs.nairobi_elevation, rs.nairobi_bbox)
    /\ xa_cell = "clip"
          => /\ Contained(Extent(xa.clipped_ds),
                          Grown(xa.nairobi_bbox, PixelSize - 1))
             /\ OutsideIsNoData(xa.clipped_ds, xa.nairobi_bbox)
             /\ InsideKeepsValue(xa.clipped_ds, xa.nairobi_bbox)

\* A crop to a box whose left edge runs through a pixel: the result starts
\* left of the box, there it holds no-data, and further right a source value.
CropWitness ==
    /\ rs_cell = "crop"
    /\ rs.nairobi_bbox.xmin % PixelSize # 0
    /\ Extent(rs.nairobi_elevation).xmin < rs.nairobi_bbox.xmin
    /\ NumCols(rs.nairobi_elevation) >= 2
    /\ ~CentreInside(rs.nairobi_elevation, 1, 1, rs.nairobi_bbox)
    /\ rs.nairobi_elevation.data[1][1] = 0
    /\ CentreInside(rs.nairobi_elevation, 1, 2, rs.nairobi_bbox)
    /\ rs.nairobi_elevation.data[1][2] = Value(raster_file, rs.nairobi_elevation.row_off + 1, 2)

(***************************************************************************)
(* C8: resampling by a factor F reads an array of floor(H / F) rows and    *)
(* floor(W / F) columns from a raster of H rows and W columns.             *)
(***************************************************************************)
IsFloorOf(q, n, d) == q * d <= n /\ n < (q + 1) * d

ResampledShapeIsFloor ==
    rs_cell = "resample"
        => /\ IsFloorOf(rs.resampled_elevation_data.rows,
                        raster_file.height, rs.resampling_factor)
           /\ IsFloorOf(rs.resampled_elevation_data.cols,
                        raster_file.width, rs.resampling_factor)

\* A raster higher than wide read at a factor that divides neither.
ResampleWitness ==
    /\ rs_cell = "resample"
    /\ rs.resampling_factor = 2
    /\ raster_file.height = 3
    /\ raster_file.width = 1
    /\ rs.resampled_elevation_data = [rows |-> 1, cols |-> 0]

(***************************************************************************)
(* C9: a load on a path that does not exist fails with an error of the     *)
(* FileNotFound kind and binds no frame, for every load of the notebooks,  *)
(* the titanic load that follows an existence check included.              *)
(***************************************************************************)
ErrorsAt(c, j) ==
    {i \in 1..Len(kernel.errors) : kernel.errors[i].cell = c /\ kernel.errors[i].stmt = j}

RanAt(c, j) == {n \in 1..Len(kernel.ran) : kernel.ran[n] = <<c, j>>}

\* Statement j of cell c was executed: it is done or it raised.
Executed(c, j) == ErrorsAt(c, j) # {} \/ RanAt(c, j) # {}

CellOver(c) == kernel.cell > c \/ (kernel.cell = c /\ kernel.stmt = 0)

NoCatchNoRetry ==
    \* the statements from the failing one on did not run
    /\ \A i \in 1..Len(kernel.errors), n \in 1..Len(kernel.ran) :
           kernel.ran[n][1] = kernel.errors[i].cell
               => kernel.ran[n][2] < kernel.errors[i].stmt
    \* a cell fails once, and no statement runs twice
    /\ \A i, j \in 1..Len(kernel.errors) :
           kernel.errors[i].cell = kernel.errors[j].cell => i = j
    /\ \A n, m \in 1..Len(kernel.ran) : kernel.ran[n] = kernel.ran[m] => n = m
    \* a cell that is over ran all its statements or showed an error
    /\ \A c \in 1..Len(NotebookCells(kernel.notebook)) :
           CellOver(c)
               => \/ \A j \in 1..Len(NotebookCells(kernel.notebook)[c]) : RanAt(c, j) # {}
                  \/ \E i \in 1..Len(kernel.errors) : kernel.errors[i].cell = c
    \* after a failure the kernel waits for the next cell
    /\ \A i \in 1..Len(kernel.errors) :
           kernel.errors[i].cell = kernel.cell => kernel.stmt = 0

\* The crop cell opened the raster and rio_mask raised ValueError: the file
\* was closed, nothing was bound, and none of the plot statements ran.
NoCatchWitness ==
    /\ kernel.notebook = "Rasterio"
    /\ kernel.cell = 3
    /\ kernel.stmt = 0
    /\ \E i \in 1..Len(kernel.errors) :
           kernel.errors[i] = [cell |-> 3, stmt |-> 2, error |-> ValueError]
    /\ RanAt(3, 1) # {}
    /\ \A j \in 2..8 : RanAt(3, j) = {}
    /\ kernel.bound["nairobi_elevation_data"] = Unbound

(***************************************************************************)
(* C11: every presenter call (frame.plot, ctx.add_basemap, Map.add_gdf,    *)
(* Map.add_raster) leaves the frame or raster it is given unchanged: the   *)
(* same rows, columns, geometries, values and CRS before and after.        *)
(***************************************************************************)
\* The statements that are presenter calls, by the position they lead to.
PresenterSteps ==
    {"a_plot", "a_basemap", "a_plot_custom", "a_basemap_custom", "a_add_gdf",
     "a_add_gdf_styled", "a_add_raster", "b_plot_districts", "b_plot_countries",
     "b_plot_africa", "b_plot_stations", "b_plot_stations_ax", "b_basemap_stations",
     "b_plot_density", "b_plot_population"}

\* The frames and rasters bound in the session.
FramesOf(m) ==
    <<m.gdf, m.gdf_paris_districts, m.gdf_countries, m.stations, m.districts,
      m.kenya_file, m.raster_data, m.quartier_file, m.districts_file>>

AppliedCells == {"mean", "rate", "filter", "sum", "aggregate"}

CallsMutateInPlace ==
    [][/\ pd_cell' = "filter" => df' = BooleanIndex(df, FareMask(df))
       /\ gp_cell' = "to_crs_mercator" =>
              gp'.gdf_paris_districts = ToCrs(gp.gdf_paris_districts, 3857)
       /\ gp_cell' = "to_crs_countries" =>
              gp'.gdf_countries = ToCrs(gp.gdf_countries, gp.gdf_paris_districts.crs)]_vars

CallsReturnNewFrames ==
    [][/\ pd_cell' \in AppliedCells => df' = df
       /\ pd_cell' = "filter" => pd_out'.filtered = BooleanIndex(df, FareMask(df))
       /\ pd_cell' = "rate" => pd_out'.rate = GroupByAggregateLambda(df)
       /\ gp_cell' = "to_crs_mercator" =>
              /\ gp'.gdf_paris_districts = gp.gdf_paris_districts
              /\ gp'.gdf_paris_districts_mercator = ToCrs(gp.gdf_paris_districts, 3857)
       /\ gp_cell' = "to_crs_countries" =>
              /\ gp'.gdf_countries = gp.gdf_countries
              /\ gp'.gdf_paris_districts = gp.gdf_paris_districts
              /\ gp'.gdf_countries_transformed =
                     ToCrs(gp.gdf_countries, gp.gdf_paris_districts.crs)]_vars

\* The districts were reprojected into another frame and are still there.
NewFrameWitness ==
    /\ gp_cell = "to_crs_mercator"
    /\ gp.gdf_paris_districts.crs # 3857
    /\ gp.gdf_paris_districts_mercator.crs = 3857
    /\ gp.gdf_paris_districts_mercator.geoms # gp.gdf_paris_districts.geoms

(***************************************************************************)
(* C18: for every frame with columns key and data, groupby("key").sum()    *)
(* and groupby("key").aggregate(np.sum) give, for each key k, the same     *)
(* value as the manual filter df[df["key"] == k]["data"].sum(), and the    *)
(* per-key sums add up to df["data"].sum().  SumsAgreeAndAddUp states      *)
(* this, the keys being those of the groupby result.  The code drops the   *)
(* rows whose key is missing from every group, so the per-key sums add up  *)
(* to the total less the data of those rows, and a key of the loop that    *)
(* is absent from the frame has the manual sum 0 and no row in the         *)
(* groupby result (SumsAgreeAndAddUpWithoutMissingKeys).                   *)
(***************************************************************************)
RECURSIVE SumValues(_)
SumValues(g) == IF g = <<>> THEN 0 ELSE Head(g).value.num + SumValues(Tail(g))

MissingKeyRows(f) == SelectSeq(f, LAMBDA r : r.key = NaNKey)

PerKeySumsAgree ==
    /\ pd_out.aggregated = grouped
    /\ \A i \in 1..Len(pd_out.key_sums) :
          LET k == pd_out.key_sums[i].key
              rows == {j \in 1..Len(grouped) : grouped[j].key = k}
          IN  IF KeyPresent(df, k)
              THEN \E j \in rows : grouped[j].value = pd_out.key_sums[i].value
              ELSE rows = {} /\ pd_out.key_sums[i].value.num = 0
    /\ \A j \in 1..Len(grouped) :
          \E i \in 1..Len(pd_out.key_sums) :
             /\ pd_out.key_sums[i].key = grouped[j].key
             /\ pd_out.key_sums[i].value = grouped[j].value

SumsAgreeAndAddUp ==
    pd_cell = "aggregate" =>
        /\ PerKeySumsAgree
        /\ SumValues(grouped) = pd_out.data_sum.num
        /\ SumValues(pd_out.aggregated) = pd_out.data_sum.num

SumsAgreeAndAddUpWithoutMissingKeys ==
    pd_cell = "aggregate" =>
        /\ PerKeySumsAgree
        /\ SumValues(grouped) + SumData(MissingKeyRows(df)) = pd_out.data_sum.num
        /\ MissingKeyRows(df) = <<>> =>
              /\ SumValues(grouped) = pd_out.data_sum.num
              /\ SumValues(pd_out.aggregated) = pd_out.data_sum.num
              /\ SumValues(pd_out.key_sums) = pd_out.data_sum.num

\* Two keys, one of them with two rows, no missing key, all four cells run.
SumsWitness ==
    /\ pd_cell = "aggregate"
    /\ Len(df) = 3
    /\ MissingKeyRows(df) = <<>>
    /\ Len(grouped) = 2
    /\ \E j \in 1..2 : grouped[j].value.num = 2
    /\ pd_out.data_sum.num = 3

(***************************************************************************)
(* C19: the two survival-rate computations are equivalent for every input  *)
(* frame: for each Sex group, groupby("Sex")["Survived"].mean() equals     *)
(* aggregate(lambda grp: grp.sum() / len(grp)), including when some        *)
(* Survived values in the group are missing.                               *)
(***************************************************************************)
\* Two quotients are the same number (a division by zero only equals another).
SameQuotient(a, b) ==
    IF a.den = 0 \/ b.den = 0 THEN a.den = b.den /\ a.num = b.num
    ELSE a.num * b.den = b.num * a.den

SurvivalRatesAgree ==
    pd_cell = "rate" =>
        /\ Len(pd_out.rate) = Len(grouped)
        /\ \A i \in 1..Len(grouped) :
              /\ pd_out.rate[i].key = grouped[i].key
              /\ SameQuotient(pd_out.rate[i].value, grouped[i].value)

\* The two computations agree on the groups without a missing value.
SurvivalRatesAgreeWhenPresent ==
    pd_cell = "rate" =>
        /\ Len(pd_out.rate) = Len(grouped)
        /\ \A i \in 1..Len(grouped) :
              /\ pd_out.rate[i].key = grouped[i].key
              /\ (\A r \in 1..Len(df) : df[r].key = grouped[i].key => ~df[r].na)
                    => SameQuotient(pd_out.rate[i].value, grouped[i].value)

(***************************************************************************)
(* C13: every file handle opened by a cell is closed by the time that cell *)
(* finishes, whether the cell completes normally or fails inside the       *)
(* block; in no state between two cells is a raster or dataset file handle *)
(* still open.                                                             *)
(***************************************************************************)
NoHandleOpenBetweenCells ==
    kernel.stmt = 0 => kernel.handles = {} /\ kernel.lazy = {}

\* The files opened by a with block are closed when their cell is over.
WithBlocksCloseTheirFiles ==
    kernel.stmt = 0 => kernel.handles = {}

\* Both datasets of 06-XArray are open after its second cell.
DatasetsLeftOpen ==
    /\ kernel.notebook = "06-XArray"
    /\ kernel.cell = 2
    /\ kernel.stmt = 0
    /\ kernel.lazy = {ForecastsNc, NairobiTiff}

(***************************************************************************)
(* C14: in every state reached by the notebooks' column assignments and    *)
(* joins, the column names of each frame are pairwise distinct: assigning  *)
(* to an existing column name replaces that column instead of adding a     *)
(* second one, and a join of two frames that share a column name does not  *)
(* yield two columns with the same name.                                   *)
(***************************************************************************)
FrameNames ==
    {"ts", "gdf_paris_districts", "gdf_buffer", "intersecting_districts", "union",
     "gdf_points", "point_in_polygon"}

NamedAs(cols, name) == {i \in 1..Len(cols) : cols[i].name = name}

PairwiseDistinct(cols) == \A i, j \in 1..Len(cols) : cols[i].name = cols[j].name => i = j

\* The one column of that name, holding the assigned values.
Replaced(cols, name, from) ==
    \E i \in 1..Len(cols) : NamedAs(cols, name) = {i} /\ cols[i].from = from

ColumnNamesDistinct ==
    /\ \A f \in FrameNames : PairwiseDistinct(cl[f])
    /\ cl_cell = "t_weekend" =>
          /\ Replaced(cl.ts, "weekday", "ts.index.weekday")
          /\ Replaced(cl.ts, "weekend", "ts[weekday].isin([5, 6])")
          /\ Len(cl.ts) = Len(cl.ts_file) + Cardinality({"weekday", "weekend"} \ ColNames(cl.ts_file))
    /\ cl_cell \in {"d_area", "d_buffer", "d_sjoin_intersects", "d_overlay", "d_sjoin_within"} =>
          /\ Replaced(cl.gdf_paris_districts, "area", "gdf_paris_districts.area")
          /\ Len(cl.gdf_paris_districts)
                = Len(cl.districts_file) + (IF "area" \in ColNames(cl.districts_file) THEN 0 ELSE 1)
    /\ cl_cell = "d_sjoin_within" =>
          /\ Len(cl.point_in_polygon) = Len(cl.gdf_points) + Len(cl.gdf_paris_districts)
          /\ "name" \in ColNames(cl.gdf_paris_districts) =>
                /\ Replaced(cl.point_in_polygon, "name_left", "point_data")
                /\ Replaced(cl.point_in_polygon, "name_right", "file")
                /\ NamedAs(cl.point_in_polygon, "name") = {}

\* The districts file has the columns name and area: the assignment replaced
\* area, and the join gave the two name columns their suffixes.
ColumnsWitness ==
    /\ cl_cell = "d_sjoin_within"
    /\ {"name", "area"} \subseteq ColNames(cl.districts_file)
    /\ Len(cl.gdf_paris_districts) = Len(cl.districts_file)
    /\ {"name_left", "name_right", "area", "index_right", "geometry"}
          \subseteq ColNames(cl.point_in_polygon)

(***************************************************************************)
(* C15: whenever a cross-frame spatial operation (sjoin, overlay) is       *)
(* invoked in notebook order, both input frames declare the same CRS at    *)
(* that moment; no join or overlay is executed on two frames with          *)
(* different CRSs.                                                         *)
(***************************************************************************)
CallsMade ==
    CASE gp_cell \in {"start", "read_districts", "read_countries", "buffer"} -> 0
      [] gp_cell = "sjoin_intersects" -> 1
      [] gp_cell = "overlay" -> 2
      [] OTHER -> 3

CrossFrameCallsShareCrs ==
    /\ Len(gp.calls) = CallsMade
    /\ \A i \in 1..Len(gp.calls) :
          /\ gp.calls[i].left_crs = gp.calls[i].right_crs
          /\ gp.calls[i].left_crs \in CRSs

\* The two joins and the overlay were called, the points having been made
\* in EPSG:4326 and the districts being in another CRS; the overlay cut the
\* buffer into more than one piece.
CrossFrameWitness ==
    /\ gp_cell = "sjoin_within"
    /\ gp.gdf_paris_districts.crs # 4326
    /\ Len(gp.gdf_points.geoms) = 1
    /\ [i \in 1..3 |-> gp.calls[i].op] = <<"sjoin", "overlay", "sjoin">>
    /\ Len(gp.union.pieces) = 2

(***************************************************************************)
(* C17: contains and within are inverses: a.contains(b) holds exactly when *)
(* b.within(a) holds; consequently the district selected by                *)
(* districts.contains(point) for a sample point is exactly the district    *)
(* paired with that point by sjoin(points, districts, predicate="within"). *)
(***************************************************************************)
\* The labels of the districts the join paired with the point labelled p.
PairedWith(p) ==
    {gp.point_in_polygon.rows[n].index_right :
        n \in {m \in 1..Len(gp.point_in_polygon.rows) : gp.point_in_polygon.rows[m].index = p}}

Labels(frame) == {frame.index[i] : i \in 1..Len(frame.index)}

ContainsIsInverseOfWithin ==
    gp_cell = "contains" =>
        /\ \A i \in 1..Len(gp.gdf_paris_districts.geoms), j \in 1..Len(gp.gdf_points.geoms) :
              Contains(gp.gdf_paris_districts.geoms[i], gp.gdf_points.geoms[j])
                  <=> Within(gp.gdf_points.geoms[j], gp.gdf_paris_districts.geoms[i])
        /\ Labels(gp.district) = PairedWith(gp.gdf_points.index[1])
        /\ Len(gp.district.index) = Cardinality(PairedWith(gp.gdf_points.index[1]))

\* The point lies on the edge of one district and inside another that
\* overlaps it: contains selected the one district the join paired it with.
ContainsWitness ==
    /\ gp_cell = "contains"
    /\ Len(gp.gdf_paris_districts.geoms) = 2
    /\ OnBoundary(gp.gdf_points.geoms[1], gp.gdf_paris_districts.geoms[1])
    /\ gp.district.index = <<1>>
    /\ Len(gp.point_in_polygon.rows) = 1

(***************************************************************************)
(* C16: in notebook order, every frame handed to a web-map presenter is in *)
(* the CRS that presenter requires at the moment of the call: a frame      *)
(* passed to leafmap add_gdf is in EPSG:4326, and data plotted on axes     *)
(* given to ctx.add_basemap without an explicit crs argument is in         *)
(* EPSG:3857; the conversion always precedes the presenter call.           *)
(***************************************************************************)
BasemapMatchesData(ax) ==
    (ax.basemap.shown /\ ~ax.basemap.given) => ax.data_crs = 3857

LayersGivenWgs84(m) ==
    \A i \in 1..Len(m.layers) : m.layers[i].kind = "gdf" => m.layers[i].source_crs = 4326

LeafmapCellsConvertFirst ==
    mp.quartier_file # NoMapFrame => BasemapMatchesData(mp.ax) /\ LayersGivenWgs84(mp.m)

\* The stations are drawn in the CRS of their file, which is not EPSG:3857,
\* under tiles drawn in EPSG:3857.
StationsUnderMisplacedTiles ==
    /\ mp_cell = "b_basemap_stations"
    /\ mp.stations.crs # 3857
    /\ mp.ax.data_crs = mp.stations.crs
    /\ mp.ax.basemap = [crs |-> 3857, given |-> FALSE, shown |-> TRUE]

(***************************************************************************)
(* C20: the affine examples preserve collinearity and midpoints between    *)
(* the point and the line built to contain it: after the same scale        *)
(* (xfact=2, yfact=2, default origin), the same translation (xoff=1,       *)
(* yoff=1) or the same rotation (45 degrees about (0,0)) of Point(1,1) and *)
(* of LineString((0,0),(1,1),(2,2)), the transformed point is still the    *)
(* middle vertex of the transformed line.                                  *)
(***************************************************************************)
\* The point is the second of the line's three vertices, which lie on one
\* line, the second halfway between the other two.
MiddleVertex(pt, line) ==
    /\ Len(pt) = 1
    /\ Len(line) = 3
    /\ pt[1] = line[2]
    /\ Orient(line[1], line[2], line[3]) = 0
    /\ \A k \in 1..2 : 2 * line[2][k] = line[1][k] + line[3][k]

AfterCell(c) ==
    CASE c = "affine_geometries" ->
           sh_cell \in {"affine_geometries", "scale", "rotate", "translate", "within",
                        "schools_in_zones"}
      [] c = "scale" -> sh_cell \in {"scale", "rotate", "translate", "within", "schools_in_zones"}
      [] c = "rotate" -> sh_cell \in {"rotate", "translate", "within", "schools_in_zones"}
      [] OTHER -> sh_cell \in {"translate", "within", "schools_in_zones"}

AffineKeepsMiddleVertex ==
    /\ AfterCell("affine_geometries") => MiddleVertex(affine.point, affine.linestring)
    /\ AfterCell("scale") => MiddleVertex(affine.scaled_point, affine.scaled_linestring)
    /\ AfterCell("rotate") => MiddleVertex(affine.rotated_point, affine.rotated_linestring)
    /\ AfterCell("translate") =>
          MiddleVertex(affine.translated_point, affine.translated_linestring)

\* The three cells ran: the line is twice as long about its centre (in
\* halves), turned onto the y axis (in units of sqrt(2)/2), moved by (1, 1).
AffineWitness ==
    /\ sh_cell = "translate"
    /\ affine.scaled_linestring = <<<<-2, -2>>, <<2, 2>>, <<6, 6>>>>
    /\ affine.scaled_point = <<<<2, 2>>>>
    /\ affine.rotated_linestring = <<<<0, 0>>, <<0, 2>>, <<0, 4>>>>
    /\ affine.translated_linestring = <<<<1, 1>>, <<2, 2>>, <<3, 3>>>>

(***************************************************************************)
(* C21: pixel to geographic to pixel is a round trip: for every pixel      *)
(* (row, col) of the raster, src.index of the coordinates that            *)
(* src.xy(row, col) gives returns (row, col); in particular the centre     *)
(* pixel (height // 2, width // 2) is recovered unchanged.                 *)
(***************************************************************************)
\* The pixels of the open raster file, counted from 0.
PixelsOf(file) == (0..(file.height - 1)) \X (0..(file.width - 1))

RoundTrip(t, p) ==
    LET geo == XY(t, p[1], p[2])
    IN  Index(t, geo[1], geo[2]) = p

PixelRoundTrip ==
    tf_cell # "off" =>
        /\ \A p \in PixelsOf(raster_file) : RoundTrip(tf.transform, p)
        /\ tf_cell = "index" =>
              /\ tf.center = <<raster_file.height \div 2, raster_file.width \div 2>>
              /\ tf.pixel = tf.center

\* The index cell ran on a raster of several rows and columns whose corner
\* is not the origin: the centre pixel came back from its coordinates.
PixelRoundTripWitness ==
    /\ tf_cell = "index"
    /\ raster_file.height = MaxDim /\ raster_file.width = 2
    /\ tf.transform.c = MaxOrigin /\ tf.transform.f = -MaxOrigin
    /\ tf.center = <<MaxDim \div 2, 1>>
    /\ tf.geo = XY(tf.transform, MaxDim \div 2, 1)
    /\ tf.pixel = <<MaxDim \div 2, 1>>

(***************************************************************************)
(* C22: the generic raster copy loop writes every band of the source       *)
(* exactly once and in place: for a source with count = n bands, the       *)
(* destination receives writes to band indices 1..n only, each exactly     *)
(* once, band i of the destination holding band i of the source, and the   *)
(* destination is created with the source's width, height, count, dtype,   *)
(* CRS and transform; both handles are closed when the cell ends.          *)
(***************************************************************************)
\* How many of the writes went to band i.
TimesWritten(i) == Cardinality({k \in 1..Len(cp.writes) : cp.writes[k] = i})

SameShape(dst, src) ==
    /\ dst.width = src.width /\ dst.height = src.height /\ dst.count = src.count
    /\ dst.dtype = src.dtype /\ dst.crs = src.crs /\ dst.transform = src.transform

CopyWritesEveryBandOnce ==
    cp_cell # "off" =>
        /\ \A k \in 1..Len(cp.writes) : cp.writes[k] \in 1..raster_file.count
        /\ \A i \in 1..raster_file.count : TimesWritten(i) <= 1
        /\ "dst" \in cp.open => SameShape(cp.output, raster_file)
        /\ cp_cell \in {"done", "raised"} => cp.open = {}
        /\ cp_cell = "done" =>
              /\ SameShape(cp.output, raster_file)
              /\ \A i \in 1..raster_file.count : TimesWritten(i) = 1
              /\ cp.output.bands = raster_file.bands
              /\ cp.err = "none"
        /\ cp_cell = "raised" => ~cp.dir_exists

\* The cell ran to its end on a source of several bands that differ.
CopyWitness ==
    /\ cp_cell = "done"
    /\ raster_file.count = MaxBands
    /\ raster_file.bands[1] # raster_file.bands[MaxBands]
    /\ cp.writes = [i \in 1..MaxBands |-> i]
    /\ cp.output.bands = raster_file.bands
    /\ cp.open = {}

(***************************************************************************)
(* C23: the proximity example buffers each park by 500 meters, converted   *)
(* to degrees as meters / 111139, and reports the location as within       *)
(* walking distance of a park exactly when the location lies within that   *)
(* park's buffer.                                                          *)
(***************************************************************************)
\* The buffer of 500 meters about a park.
WalkingBuffer(park) == Buffer(park, MetersToDegrees(WalkingDistanceMeters))

BuffersAre500Meters ==
    /\ pk_cell \in {"park_buffers", "location_within"} =>
          /\ pk.park1_buffer = WalkingBuffer(pk.park1)
          /\ pk.park2_buffer = WalkingBuffer(pk.park2)
    /\ pk_cell = "location_within" =>
          /\ pk.location_within_park1_buffer \in
                WithinBuffer(pk.location, WalkingBuffer(pk.park1))
          /\ pk.location_within_park2_buffer \in
                WithinBuffer(pk.location, WalkingBuffer(pk.park2))

\* What the cells report is whether the location is within the buffers they
\* made, of whatever distance.
ReportsWithinTheBuffersMade ==
    pk_cell = "location_within" =>
        /\ pk.location_within_park1_buffer \in WithinBuffer(pk.location, pk.park1_buffer)
        /\ pk.location_within_park2_buffer \in WithinBuffer(pk.location, pk.park2_buffer)

\* The notebook's parks: the location is reported within the buffer of
\* park1, which is more than 500 meters away.
ReportedNearAFarPark ==
    /\ pk_cell = "location_within"
    /\ pk.park1 = Park1 /\ pk.park2 = Park2
    /\ pk.location_within_park1_buffer
    /\ ~pk.location_within_park2_buffer
    /\ WithinBuffer(pk.location, WalkingBuffer(pk.park1)) = {FALSE}

(***************************************************************************)
(* C24: every access to a raster dataset object (read, bounds, crs, meta,  *)
(* transform, or passing it to plotting_extent) happens while its handle   *)
(* is open, that is, inside the with block that opened it; no cell uses a  *)
(* dataset object after its with block has exited.                         *)
(***************************************************************************)
AccessesWhileOpen ==
    du # <<>> => \A i \in 1..Len(du.accesses) : du.accesses[i].state = "open"

\* The pixels are read and written while the dataset is open, and no access
\* raises for a closed dataset.
PixelAccessesWhileOpen ==
    du # <<>> =>
        /\ \A i \in 1..Len(du.accesses) :
              du.accesses[i].attr \in {"read", "write", "rio_mask"}
                  => du.accesses[i].state = "open"
        /\ \A i \in 1..Len(du.errors) : du.errors[i].error # ClosedError

\* The three uses of src after its with block: src.crs, plotting_extent(src,
\* ...) and src.meta.copy(), each in a cell after the one that opened src.
UsedAfterExit ==
    /\ du # <<>>
    /\ du.cell = Len(DatasetCells) /\ du.stmt = 0
    /\ du.errors = <<>>
    /\ {<<du.accesses[i].cell, du.accesses[i].attr>> :
            i \in {j \in 1..Len(du.accesses) : du.accesses[j].state = "closed"}}
          = {<<10, "crs">>, <<14, "plotting_extent">>, <<16, "meta">>}

(***************************************************************************)
(* C25: every leafmap.Map in the notebook is given its center in the same  *)
(* coordinate order, (y, x) = (latitude, longitude): the two maps centred  *)
(* on a sampled centroid and the map centred on the raster bounds all pass *)
(* the y coordinate first and the x coordinate second.                     *)
(***************************************************************************)
\* The cells of 07-Contextily-Leafmap at which m is the map centred on the
\* sampled centroid bound to center, and those at which it is the map
\* centred on the raster.
CentroidMapCells ==
    {"a_map", "a_add_gdf", "a_map_again", "a_read_utm", "a_to_crs_wgs84_utm",
     "a_add_gdf_styled", "a_open_kenya"}

RasterMapCells == {"a_map_kenya", "a_add_raster"}

\* Twice the middle of the raster's bounds, y first.
RasterMiddleYX(file) == <<file.height * PixelSize, file.width * PixelSize>>

MapCentersLatitudeFirst ==
    /\ mp_cell \in CentroidMapCells => mp.m.center = <<mp.center[2], mp.center[1]>>
    /\ mp_cell \in RasterMapCells => mp.m.center = RasterMiddleYX(mp.kenya_file)

\* The map centred on the raster is given y first.
RasterMapLatitudeFirst ==
    mp_cell \in RasterMapCells => mp.m.center = RasterMiddleYX(mp.kenya_file)

\* A map centred on a centroid whose x and y differ is given x first.
CentroidMapLongitudeFirst ==
    /\ mp_cell = "a_map"
    /\ mp.gdf.crs = 4326
    /\ mp.center[1] # mp.center[2]
    /\ mp.m.center = <<mp.center[1], mp.center[2]>>
====
